---- MODULE Spec2Model ----
(***************************************************************************)
(* Response caches of smartthings-mcp.                                     *)
(*                                                                         *)
(* Two caches exist: the client's CacheMixin (one per client object, used  *)
(* by BaseClient.call_tool) and the server's module-level cache (used by   *)
(* make_request).  They live in different processes and share no state; a  *)
(* behaviour of this model is a run of one of the two programs, chosen by  *)
(* the variable program.                                                   *)
(*                                                                         *)
(* Modelling choices:                                                      *)
(*  - time.time() is the integer variable now, advanced by Tick;           *)
(*  - an OrderedDict is a sequence of entries, head = oldest;              *)
(*  - a tool name is a sequence of text pieces, so that str.startswith is  *)
(*    a prefix test on sequences (get_device is a proper prefix of         *)
(*    get_device_components);                                              *)
(*  - a dict of parameters is a sequence of <<name, value>> pairs in       *)
(*    insertion order; json.dumps(sort_keys=True) sorts it by name; the    *)
(*    truncated md5 digests are the real digests of the modelled inputs.   *)
(***************************************************************************)
EXTENDS Integers, Sequences, FiniteSets, TLC

VARIABLES
    program,            \* "client" or "server": the process this run is of
    now,                \* reading of time.time()
    cache,              \* client: self._cache
    cache_ttl,          \* client: self._cache_ttl
    cache_enabled,      \* client: self._cache_enabled
    max_cache_size,     \* client: self._max_cache_size
    cache_hits,         \* client: self._cache_hits
    cache_misses,       \* client: self._cache_misses
    server_cache,       \* server: _server_cache
    s_cache_ttl,        \* server: _cache_ttl
    s_cache_max_size,   \* server: _cache_max_size
    s_cache_enabled,    \* server: _cache_enabled
    s_cache_hits,       \* server: _cache_hits
    s_cache_misses,     \* server: _cache_misses
    threads,            \* the calls in flight: per thread (server) or task (client),
                        \* its position in the handler and its locals
    upstream,           \* the remote resource: the number of writes that have
                        \* taken effect on it
    useOrder,           \* observation: the stored keys, least recently used first
    last                \* observation: the most recent call, while nothing but
                        \* clock ticks happened since

cvars == <<cache, cache_ttl, cache_enabled, max_cache_size, cache_hits, cache_misses>>
svars == <<server_cache, s_cache_ttl, s_cache_max_size, s_cache_enabled,
           s_cache_hits, s_cache_misses>>
vars == <<program, now, cvars, svars, threads, upstream, useOrder, last>>

(***************************************************************************)
(* Bounds of the model.                                                    *)
(***************************************************************************)
MaxTime == 1
MaxTTL == 1
MaxCacheSize == 2
MaxLookups == 2

(***************************************************************************)
(* Values.                                                                 *)
(***************************************************************************)
None == [kind |-> "None", text |-> ""]
Json(x) == [kind |-> "json", text |-> x]
EmptyDict == Json("{}")
ErrorDict(msg) == [kind |-> "error_dict", text |-> msg]
\* a response without content (response.content is empty)
EmptyBody == [kind |-> "empty_body", text |-> ""]

\* results a dispatcher call (client) or a response body (server) can be
Results == {Json("r1"), Json("r2"), None}

(***************************************************************************)
(* Client: operation catalog (CacheMixin class attributes).                *)
(***************************************************************************)
CACHEABLE_OPERATIONS ==
    { <<"list_locations">>, <<"get_location">>, <<"list_devices">>, <<"get_device">>,
      <<"get_location", "_rooms">>, <<"get_room">>, <<"list_modes">>,
      <<"get_current_mode">>, <<"list_scenes">>, <<"get_scene">>, <<"list_rules">>,
      <<"get_rule">>, <<"get_device", "_components">>, <<"get_device", "_capabilities">>,
      <<"get_device", "_health">> }

CACHE_INVALIDATING_OPERATIONS ==
    { <<"execute_command">>, <<"create_location">>, <<"update_location">>,
      <<"delete_location">>, <<"create_room">>, <<"update_room">>, <<"delete_room">>,
      <<"set_mode">>, <<"execute_scene">>, <<"update_device">>, <<"delete_device">>,
      <<"create_rule">>, <<"update_rule">>, <<"delete_rule">>, <<"execute_rule">> }

INVALIDATION_PATTERNS ==
    (<<"execute_command">> :> << <<"get_device", "_status">>, <<"get_device">> >>) @@
    (<<"update_device">>   :> << <<"list_devices">>, <<"get_device">> >>) @@
    (<<"delete_device">>   :> << <<"list_devices">> >>) @@
    (<<"create_location">> :> << <<"list_locations">> >>) @@
    (<<"update_location">> :> << <<"list_locations">>, <<"get_location">> >>) @@
    (<<"delete_location">> :> << <<"list_locations">> >>) @@
    (<<"create_room">>     :> << <<"get_location", "_rooms">> >>) @@
    (<<"update_room">>     :> << <<"get_location", "_rooms">>, <<"get_room">> >>) @@
    (<<"delete_room">>     :> << <<"get_location", "_rooms">> >>) @@
    (<<"set_mode">>        :> << <<"get_current_mode">> >>) @@
    (<<"create_rule">>     :> << <<"list_rules">> >>) @@
    (<<"update_rule">>     :> << <<"list_rules">>, <<"get_rule">> >>) @@
    (<<"delete_rule">>     :> << <<"list_rules">>, <<"get_rule">> >>) @@
    (<<"execute_rule">>    :> << >>)

(***************************************************************************)
(* Key encoding.                                                           *)
(***************************************************************************)
\* alphabetical order of the parameter names used, as str comparison gives it
ParamNameOrder ==
    <<"capability", "device_id", "filter", "locationId", "location_id", "rule_id">>
NameRank(n) == CHOOSE i \in DOMAIN ParamNameOrder : ParamNameOrder[i] = n

\* a pair is <<name, text>>, or <<name, "{}", pairs>> when the value is
\* itself a dict
IsNested(pair) == Len(pair) = 3

\* <<name, "object", type, <<>>>> is a value json.dumps cannot serialize
\* (a set, bytes, a datetime)
RECURSIVE IsSerializable(_)
IsSerializable(params) ==
    \A i \in DOMAIN params :
        IF IsNested(params[i]) THEN IsSerializable(params[i][3])
        ELSE Len(params[i]) # 4

\* str(e) of the TypeError json.dumps raises
TypeErrorText == "Object of type set is not JSON serializable"

\* variant: the pairs are serialized in insertion order
JsonDumps_InsertionOrder(params) == params

RECURSIVE JsonDumpsSorted(_)
\* json.dumps(params, sort_keys=True): the pairs of the dict sorted by name,
\* at every nesting level
JsonDumpsSorted(params) ==
    LET pairs == {params[i] : i \in DOMAIN params}
        n == Cardinality(pairs)
        sorted == CHOOSE s \in [1..n -> pairs] :
                    \A i, j \in 1..n : i < j => NameRank(s[i][1]) < NameRank(s[j][1])
    IN  IF n = 0 THEN <<>>
        ELSE [i \in 1..n |->
                IF IsNested(sorted[i])
                THEN <<sorted[i][1], "{}", JsonDumpsSorted(sorted[i][3])>>
                ELSE sorted[i]]

\* hashlib.md5(text.encode()).hexdigest()[:8] of the serialized parameters
Md5Hex8(text) ==
    CASE text = <<>> -> "99914b93"
      [] text = << <<"location_id", "L1">>, <<"rule_id", "R1">> >> -> "99d31c40"
      [] text = << <<"rule_id", "R1">>, <<"location_id", "L1">> >> -> "a99eca2f"
      [] text = << <<"device_id", "D1">> >> -> "23f05d12"
      [] text = << <<"filter", "{}",
                     << <<"capability", "switch">>, <<"location_id", "L1">> >> >> >>
            -> "70d7279c"
      [] text = << <<"filter", "{}",
                     << <<"location_id", "L1">>, <<"capability", "switch">> >> >> >>
            -> "3c25f3d2"

\* CacheMixin._generate_cache_key: f"{tool_name}:{params_hash}"
GenerateCacheKey(tool_name, params) ==
    tool_name \o <<":", Md5Hex8(JsonDumpsSorted(params))>>

\* str.startswith
StartsWith(s, prefix) ==
    /\ Len(prefix) <= Len(s)
    /\ \A i \in 1..Len(prefix) : s[i] = prefix[i]

(***************************************************************************)
(* Ordered-dict helpers (collections.OrderedDict).                         *)
(***************************************************************************)
Entry(key, value, timestamp) == [key |-> key, value |-> value, ts |-> timestamp]
Keys(d) == {d[i].key : i \in DOMAIN d}
Contains(d, key) == key \in Keys(d)
Lookup(d, key) == d[CHOOSE i \in DOMAIN d : d[i].key = key]
DelItem(d, key) == SelectSeq(d, LAMBDA e : e.key # key)
\* d[key] = entry: replaces in place when the key exists, else appends
SetItem(d, entry) ==
    IF Contains(d, entry.key)
    THEN [i \in DOMAIN d |-> IF d[i].key = entry.key THEN entry ELSE d[i]]
    ELSE Append(d, entry)
MoveToEnd(d, key) == Append(DelItem(d, key), Lookup(d, key))
\* popitem(last=False)
PopFirst(d) == Tail(d)

\* variant: the loop stops one entry too early
EvictWhileOver_OffByOne(d, max_size) ==
    IF Len(d) > max_size + 1
    THEN [cache |-> SubSeq(d, Len(d) - max_size, Len(d)), raised |-> FALSE]
    ELSE [cache |-> d, raised |-> FALSE]

\* variant: the loop never removes the entry that was just stored
EvictWhileOver_KeepsNewest(d, max_size) ==
    IF Len(d) > max_size /\ Len(d) > 1
    THEN [cache |-> SubSeq(d, Len(d) - (IF max_size > 1 THEN max_size ELSE 1) + 1, Len(d)),
          raised |-> FALSE]
    ELSE [cache |-> d, raised |-> FALSE]

\* variant: a store over its maximum is emptied
EvictWhileOver_EmptiesWhenOver(d, max_size) ==
    IF Len(d) > max_size THEN [cache |-> <<>>, raised |-> FALSE]
    ELSE [cache |-> d, raised |-> FALSE]

RECURSIVE EvictWhileOver(_, _)
\* while len(d) > max_size: d.popitem(last=False); popitem on an empty dict
\* raises KeyError
EvictWhileOver(d, max_size) ==
    IF Len(d) > max_size
    THEN IF Len(d) = 0 THEN [cache |-> d, raised |-> TRUE]
         ELSE EvictWhileOver(PopFirst(d), max_size)
    ELSE [cache |-> d, raised |-> FALSE]

(***************************************************************************)
(* Client: CacheMixin.  A store S is the record of the object's fields.    *)
(***************************************************************************)
ClientStore ==
    [cache |-> cache, ttl |-> cache_ttl, enabled |-> cache_enabled,
     max_size |-> max_cache_size, hits |-> cache_hits, misses |-> cache_misses]

\* variant: an entry whose age equals the TTL is still valid
IsCacheValid_Inclusive(S, t, timestamp) == (t - timestamp) <= S.ttl

\* variant: an entry read at the time it was stored is always valid
IsCacheValid_FreshAtZero(S, t, timestamp) == t = timestamp \/ (t - timestamp) < S.ttl

\* CacheMixin._is_cache_valid
IsCacheValid(S, t, timestamp) == (t - timestamp) < S.ttl

\* variant: a hit does not refresh the entry's recency
GetFromCache_NoMoveToEnd(S, t, cache_key) ==
    IF ~S.enabled THEN [S |-> S, result |-> None]
    ELSE IF Contains(S.cache, cache_key)
              /\ IsCacheValid(S, t, Lookup(S.cache, cache_key).ts)
    THEN [S |-> [S EXCEPT !.hits = @ + 1],
          result |-> Lookup(S.cache, cache_key).value]
    ELSE [S |-> [S EXCEPT !.cache = DelItem(S.cache, cache_key), !.misses = @ + 1],
          result |-> None]

\* variant: an expired entry is left in the store
GetFromCache_KeepsExpired(S, t, cache_key) ==
    IF ~S.enabled THEN [S |-> S, result |-> None]
    ELSE IF Contains(S.cache, cache_key)
              /\ IsCacheValid(S, t, Lookup(S.cache, cache_key).ts)
    THEN [S |-> [S EXCEPT !.cache = MoveToEnd(S.cache, cache_key), !.hits = @ + 1],
          result |-> Lookup(S.cache, cache_key).value]
    ELSE [S |-> [S EXCEPT !.misses = @ + 1], result |-> None]

\* variant: an expired entry is deleted without counting a miss
GetFromCache_ExpiredUncounted(S, t, cache_key) ==
    IF ~S.enabled THEN [S |-> S, result |-> None]
    ELSE IF Contains(S.cache, cache_key)
    THEN IF IsCacheValid(S, t, Lookup(S.cache, cache_key).ts)
         THEN [S |-> [S EXCEPT !.cache = MoveToEnd(S.cache, cache_key), !.hits = @ + 1],
               result |-> Lookup(S.cache, cache_key).value]
         ELSE [S |-> [S EXCEPT !.cache = DelItem(S.cache, cache_key)], result |-> None]
    ELSE [S |-> [S EXCEPT !.misses = @ + 1], result |-> None]

\* CacheMixin._get_from_cache, run at time t
GetFromCache(S, t, cache_key) ==
    IF ~S.enabled THEN [S |-> S, result |-> None]
    ELSE IF Contains(S.cache, cache_key)
              /\ IsCacheValid(S, t, Lookup(S.cache, cache_key).ts)
    THEN [S |-> [S EXCEPT !.cache = MoveToEnd(S.cache, cache_key), !.hits = @ + 1],
          result |-> Lookup(S.cache, cache_key).value]
    ELSE [S |-> [S EXCEPT !.cache = DelItem(S.cache, cache_key), !.misses = @ + 1],
          result |-> None]

\* variant: the result is stored whether or not caching is enabled
PutInCache_IgnoresEnabled(S, t, cache_key, result) ==
    LET stored == MoveToEnd(SetItem(S.cache, Entry(cache_key, result, t)), cache_key)
        ev == EvictWhileOver(stored, S.max_size)
    IN  [S |-> [S EXCEPT !.cache = ev.cache], raised |-> ev.raised]

\* variant: entries past their TTL are evicted before the least recently
\* used entry
PutInCache_EvictsExpiredFirst(S, t, cache_key, result) ==
    IF ~S.enabled THEN [S |-> S, raised |-> FALSE]
    ELSE LET stored == MoveToEnd(SetItem(S.cache, Entry(cache_key, result, t)), cache_key)
             fresh == IF Len(stored) > S.max_size
                      THEN SelectSeq(stored, LAMBDA e : e.key = cache_key
                                                          \/ IsCacheValid(S, t, e.ts))
                      ELSE stored
             ev == EvictWhileOver(fresh, S.max_size)
         IN  [S |-> [S EXCEPT !.cache = ev.cache], raised |-> ev.raised]

\* variant: a key that is already stored keeps its entry
PutInCache_KeepsStored(S, t, cache_key, result) ==
    IF ~S.enabled THEN [S |-> S, raised |-> FALSE]
    ELSE LET stored == IF Contains(S.cache, cache_key) THEN MoveToEnd(S.cache, cache_key)
                       ELSE SetItem(S.cache, Entry(cache_key, result, t))
             ev == EvictWhileOver(stored, S.max_size)
         IN  [S |-> [S EXCEPT !.cache = ev.cache], raised |-> ev.raised]

\* variant: a key that is already stored keeps its timestamp
PutInCache_KeepsTimestamp(S, t, cache_key, result) ==
    IF ~S.enabled THEN [S |-> S, raised |-> FALSE]
    ELSE LET ts == IF Contains(S.cache, cache_key) THEN Lookup(S.cache, cache_key).ts ELSE t
             stored == MoveToEnd(SetItem(S.cache, Entry(cache_key, result, ts)), cache_key)
             ev == EvictWhileOver(stored, S.max_size)
         IN  [S |-> [S EXCEPT !.cache = ev.cache], raised |-> ev.raised]

\* CacheMixin._put_in_cache, run at time t
PutInCache(S, t, cache_key, result) ==
    IF ~S.enabled THEN [S |-> S, raised |-> FALSE]
    ELSE LET stored == MoveToEnd(SetItem(S.cache, Entry(cache_key, result, t)), cache_key)
             ev == EvictWhileOver(stored, S.max_size)
         IN  [S |-> [S EXCEPT !.cache = ev.cache], raised |-> ev.raised]

\* variant: the prefix is matched without the ":" that ends the tool name
InvalidateCachePattern_NoColon(S, pattern) ==
    IF ~S.enabled THEN S
    ELSE [S EXCEPT !.cache = SelectSeq(S.cache, LAMBDA e : ~StartsWith(e.key, pattern))]

\* variant: the prefix is matched on the first word of the tool name only
InvalidateCachePattern_FirstWord(S, pattern) ==
    IF ~S.enabled THEN S
    ELSE [S EXCEPT !.cache = SelectSeq(S.cache, LAMBDA e : Head(e.key) # Head(pattern))]

\* CacheMixin._invalidate_cache_pattern
InvalidateCachePattern(S, pattern) ==
    IF ~S.enabled THEN S
    ELSE [S EXCEPT !.cache =
            SelectSeq(S.cache, LAMBDA e : ~StartsWith(e.key, pattern \o <<":">>))]

\* variant: only the first listed pattern is purged
InvalidatePatterns_FirstOnly(S, patterns) ==
    IF patterns = <<>> THEN S ELSE InvalidateCachePattern(S, Head(patterns))

RECURSIVE InvalidatePatterns(_, _)
\* the loop of _invalidate_cache_for_operation over the listed patterns
InvalidatePatterns(S, patterns) ==
    IF patterns = <<>> THEN S
    ELSE InvalidatePatterns(InvalidateCachePattern(S, Head(patterns)), Tail(patterns))

\* variant: a write with no listed pattern purges the whole store
InvalidateCacheForOperation_ClearsUnlisted(S, tool_name) ==
    IF tool_name \in DOMAIN INVALIDATION_PATTERNS /\ INVALIDATION_PATTERNS[tool_name] # <<>>
    THEN InvalidatePatterns(S, INVALIDATION_PATTERNS[tool_name])
    ELSE [S EXCEPT !.cache = <<>>]

\* CacheMixin._invalidate_cache_for_operation
InvalidateCacheForOperation(S, tool_name) ==
    IF tool_name \in DOMAIN INVALIDATION_PATTERNS
    THEN InvalidatePatterns(S, INVALIDATION_PATTERNS[tool_name])
    ELSE S

\* variant: the entries are removed, the counters are kept
Cleared_KeepsCounters(S) == [S EXCEPT !.cache = <<>>]

\* CacheMixin.clear_cache
Cleared(S) == [S EXCEPT !.cache = <<>>, !.hits = 0, !.misses = 0]

\* variant: the rate is cut to two decimals, not rounded
HitRatePercent_Truncated(hits, total) ==
    IF total > 0 THEN (hits * 10000) \div total ELSE 0

\* round(hits / total * 100, 2), in hundredths of a percent
HitRatePercent(hits, total) ==
    IF total > 0 THEN (hits * 20000 + total) \div (2 * total) ELSE 0

\* CacheMixin.get_cache_stats
GetCacheStats(S) ==
    LET total_requests == S.hits + S.misses
    IN  [enabled |-> S.enabled, size |-> Len(S.cache), max_size |-> S.max_size,
         ttl_seconds |-> S.ttl, hits |-> S.hits, misses |-> S.misses,
         total_requests |-> total_requests,
         hit_rate_percent |-> HitRatePercent(S.hits, total_requests)]


(***************************************************************************)
(* Server: module-level cache of modules/server/common.py.                 *)
(***************************************************************************)
BASE_URL == "https://api.smartthings.com/v1"

WriteMethods_NoPatch == {"POST", "PUT", "DELETE"}
WriteMethods == {"POST", "PUT", "DELETE", "PATCH"}

\* hashlib.md5(text.encode()).hexdigest()[:12] of the serialized
\* {'method': ..., 'url': ..., 'params': ...}
Md5Hex12(method, url, sorted_params) ==
    CASE method = "GET" /\ url = <<BASE_URL, "rules">> /\ sorted_params = <<>>
            -> "94fd448beb88"
      [] method = "GET" /\ url = <<BASE_URL, "rules">>
            /\ sorted_params = << <<"locationId", "L1">> >>
            -> "79d4852dfbc4"
      [] method = "GET" /\ url = <<BASE_URL, "devices">> /\ sorted_params = <<>>
            -> "384229374c1d"
      [] method = "GET" /\ url = <<BASE_URL, "devices">>
            /\ sorted_params = << <<"locationId", "L1">> >>
            -> "8618524ce9dd"
      [] method = "GET" /\ url = <<BASE_URL, "devices">>
            /\ sorted_params = << <<"capability", "switch">>, <<"locationId", "L1">> >>
            -> "9bf10413b9ba"
      [] method = "GET" /\ url = <<BASE_URL, "devices">>
            /\ sorted_params = << <<"locationId", "L1">>, <<"capability", "switch">> >>
            -> "cb4ed24bacfd"

\* _generate_cache_key: f"{method}:{cache_hash}"; the credential is not part
\* of the hashed data
ServerGenerateCacheKey(method, url, params) ==
    <<method, ":", Md5Hex12(method, url, JsonDumpsSorted(params))>>

ServerStore ==
    [cache |-> server_cache, ttl |-> s_cache_ttl, enabled |-> s_cache_enabled,
     max_size |-> s_cache_max_size, hits |-> s_cache_hits, misses |-> s_cache_misses]

\* _is_cache_valid
ServerIsCacheValid(S, t, timestamp) == (t - timestamp) < S.ttl

\* _get_from_cache, run at time t
ServerGetFromCache(S, t, cache_key) ==
    IF ~S.enabled THEN [S |-> S, result |-> None]
    ELSE IF Contains(S.cache, cache_key)
              /\ ServerIsCacheValid(S, t, Lookup(S.cache, cache_key).ts)
    THEN [S |-> [S EXCEPT !.cache = MoveToEnd(S.cache, cache_key), !.hits = @ + 1],
          result |-> Lookup(S.cache, cache_key).value]
    ELSE [S |-> [S EXCEPT !.cache = DelItem(S.cache, cache_key), !.misses = @ + 1],
          result |-> None]

\* _put_in_cache, run at time t
ServerPutInCache(S, t, cache_key, result) ==
    IF ~S.enabled THEN [S |-> S, raised |-> FALSE]
    ELSE LET stored == MoveToEnd(SetItem(S.cache, Entry(cache_key, result, t)), cache_key)
             ev == EvictWhileOver(stored, S.max_size)
         IN  [S |-> [S EXCEPT !.cache = ev.cache], raised |-> ev.raised]

\* variant: the entries are removed, the counters are kept
ServerCleared_KeepsCounters(S) == [S EXCEPT !.cache = <<>>]

\* _clear_cache
ServerCleared(S) == [S EXCEPT !.cache = <<>>, !.hits = 0, !.misses = 0]

\* get_cache_stats
ServerGetCacheStats(S) ==
    LET total == S.hits + S.misses
    IN  [enabled |-> S.enabled, size |-> Len(S.cache), max_size |-> S.max_size,
         ttl_seconds |-> S.ttl, hits |-> S.hits, misses |-> S.misses,
         total_requests |-> total,
         hit_rate_percent |-> HitRatePercent(S.hits, total)]

(***************************************************************************)
(* Observation.                                                            *)
(***************************************************************************)
\* what the most recent call did: the operation (op), its cache key, what
\* parameters its key was computed from (params), what
\* its cache lookup counted (lookup: "hit", "miss", or "none" when no lookup
\* was counted), the number of remote calls it made (dispatched), whether the remote call or
\* the store failed (failed) and the remote failure's message (cause), the
\* value the remote call produced (fetched; None when there was none),
\* whether the call raised to its caller and with which message (raised,
\* err), the value it returned (ret), whether its lookup removed an expired
\* entry (expired), and how many entries its put evicted (evicted) and its
\* invalidation removed (purged).  When the most recent operation was not a
\* call but clear_cache, set_cache_enabled or set_cache_ttl, admin names it
\* and purged is the number of entries it removed
NoCall ==
    [op |-> <<>>, admin |-> "", auth |-> "", key |-> <<>>, params |-> <<>>, lookup |-> "none",
     dispatched |-> 0, failed |-> FALSE, cause |-> "", fetched |-> None,
     raised |-> FALSE, ret |-> None, err |-> <<>>,
     expired |-> FALSE, evicted |-> 0, victims |-> <<>>, purged |-> 0]

Admin(name, removed) == [NoCall EXCEPT !.admin = name, !.purged = removed]

\* the entries a put under the key removed from the store it was given:
\* those of the other keys that are no longer stored
Evicted(before, after, key) ==
    SelectSeq(before, LAMBDA e : e.key # key /\ ~Contains(after, e.key))

\* recency bookkeeping: a put or a hit makes the key the most recently used
Use(order, key) == Append(SelectSeq(order, LAMBDA k : k # key), key)
Prune(order, d) == SelectSeq(order, LAMBDA k : k \in Keys(d))

(***************************************************************************)
(* Client: BaseClient.call_tool.                                           *)
(***************************************************************************)
\* outcomes of the remote call `await client.call_tool(tool_name, params)`
DispatchOutcomes ==
    {[ok |-> TRUE, value |-> v, msg |-> ""] : v \in Results}
        \cup {[ok |-> FALSE, value |-> None, msg |-> "Connection refused"]}

KeyErrorText == "'dictionary is empty'"

SetClient(S) ==
    /\ cache' = S.cache
    /\ cache_ttl' = S.ttl
    /\ cache_enabled' = S.enabled
    /\ max_cache_size' = S.max_size
    /\ cache_hits' = S.hits
    /\ cache_misses' = S.misses

\* variant: every tool is taken for cacheable
IsCacheable_Always(tool_name) == TRUE

\* is_cacheable = tool_name in getattr(self, 'CACHEABLE_OPERATIONS', set())
IsCacheable(tool_name) == tool_name \in CACHEABLE_OPERATIONS

CallTool(tool_name, params, out) ==
    LET is_cacheable == IsCacheable(tool_name)
        is_write_op == tool_name \in CACHE_INVALIDATING_OPERATIONS
        \* _generate_cache_key runs before the try block, for cacheable tools
        encoding_fails == is_cacheable /\ ~IsSerializable(params)
        cache_key == IF IsSerializable(params) THEN GenerateCacheKey(tool_name, params)
                     ELSE <<>>
        g == IF is_cacheable THEN GetFromCache(ClientStore, now, cache_key)
             ELSE [S |-> ClientStore, result |-> None]
        hit == is_cacheable /\ g.result # None
        \* inside the try block
        p == IF out.ok /\ is_cacheable THEN PutInCache(g.S, now, cache_key, out.value)
             ELSE [S |-> g.S, raised |-> FALSE]
        completed == out.ok /\ ~p.raised
        S2 == IF completed /\ is_write_op
              THEN InvalidateCacheForOperation(p.S, tool_name) ELSE p.S
        final == IF hit THEN g.S ELSE S2
        ret == IF hit THEN g.result
               ELSE IF completed THEN out.value
               ELSE ErrorDict(IF out.ok THEN KeyErrorText ELSE out.msg)
        lookup == IF g.S.hits > cache_hits THEN "hit"
                  ELSE IF g.S.misses > cache_misses THEN "miss" ELSE "none"
        used == cache_enabled /\ (lookup = "hit" \/ (is_cacheable /\ ~hit /\ out.ok))
    IN  /\ program = "client"
        /\ IF encoding_fails
           THEN /\ UNCHANGED <<cvars, useOrder>>
                /\ last' = [NoCall EXCEPT !.op = tool_name, !.params = params,
                                          !.failed = TRUE, !.raised = TRUE,
                                          !.err = <<"TypeError: ", TypeErrorText>>]
           ELSE /\ SetClient(final)
                /\ useOrder' = Prune(IF used THEN Use(useOrder, cache_key) ELSE useOrder,
                                     final.cache)
                /\ last' = [op |-> tool_name, admin |-> "", auth |-> "", key |-> cache_key,
                            params |-> params, lookup |-> lookup,
                            dispatched |-> IF hit THEN 0 ELSE 1,
                            failed |-> ~hit /\ ~completed,
                            cause |-> IF ~hit /\ ~out.ok THEN out.msg ELSE "",
                            fetched |-> IF ~hit /\ out.ok THEN out.value ELSE None,
                            raised |-> FALSE, ret |-> ret, err |-> <<>>,
                            expired |-> Len(g.S.cache) < Len(cache),
                            evicted |-> IF hit \/ ~out.ok \/ ~is_cacheable \/ ~cache_enabled THEN 0
                                        ELSE Len(g.S.cache) + 1 - Len(p.S.cache)
                                             - (IF Contains(g.S.cache, cache_key) THEN 1 ELSE 0),
                            victims |-> IF hit \/ ~out.ok \/ ~is_cacheable \/ ~cache_enabled
                                        THEN <<>>
                                        ELSE Evicted(g.S.cache, p.S.cache, cache_key),
                            purged |-> IF hit THEN 0 ELSE Len(p.S.cache) - Len(S2.cache)]
        /\ UNCHANGED <<upstream, threads, program, now, svars>>

\* CacheMixin.clear_cache
ClearCache ==
    /\ program = "client"
    /\ SetClient(Cleared(ClientStore))
    /\ useOrder' = <<>>
    /\ last' = Admin("clear_cache", Len(cache))
    /\ UNCHANGED <<upstream, threads, program, now, svars>>

\* variant: disabling leaves the store and the counters as they are
SetCacheEnabled_KeepsStore(enabled) ==
    /\ program = "client"
    /\ SetClient([ClientStore EXCEPT !.enabled = enabled])
    /\ last' = Admin("set_cache_enabled", 0)
    /\ UNCHANGED <<upstream, threads, program, now, svars, useOrder>>

\* CacheMixin.set_cache_enabled
SetCacheEnabled(enabled) ==
    LET S == [ClientStore EXCEPT !.enabled = enabled]
        final == IF ~enabled THEN Cleared(S) ELSE S
    IN  /\ program = "client"
        /\ SetClient(final)
        /\ useOrder' = Prune(useOrder, final.cache)
        /\ last' = Admin("set_cache_enabled", Len(cache) - Len(final.cache))
        /\ UNCHANGED <<upstream, threads, program, now, svars>>

\* variant: entries already past the new TTL are dropped at once
SetCacheTTL_DropsExpired(ttl_seconds) ==
    LET kept == SelectSeq(cache, LAMBDA e : (now - e.ts) < ttl_seconds)
    IN  /\ program = "client"
        /\ SetClient([ClientStore EXCEPT !.ttl = ttl_seconds, !.cache = kept])
        /\ useOrder' = Prune(useOrder, kept)
        /\ last' = Admin("set_cache_ttl", Len(cache) - Len(kept))
        /\ UNCHANGED <<upstream, threads, program, now, svars>>

\* CacheMixin.set_cache_ttl
SetCacheTTL(ttl_seconds) ==
    /\ program = "client"
    /\ SetClient([ClientStore EXCEPT !.ttl = ttl_seconds])
    /\ last' = Admin("set_cache_ttl", 0)
    /\ UNCHANGED <<upstream, threads, program, now, svars, useOrder>>

(***************************************************************************)
(* Server: make_request.                                                   *)
(***************************************************************************)
\* outcomes of requests.request(...): a 2xx response with a JSON body, a 2xx
\* response with no content, or a RequestException whose response may carry
\* a JSON body with a 'message'
UpstreamOutcomes ==
    {[status |-> "ok", value |-> v, msg |-> "", api_message |-> ""] : v \in Results}
        \cup {[status |-> "empty", value |-> None, msg |-> "", api_message |-> ""]}
        \cup {[status |-> "error", value |-> None,
               msg |-> "404 Client Error", api_message |-> m] : m \in {"", "Not found"}}

SetServer(S) ==
    /\ server_cache' = S.cache
    /\ s_cache_ttl' = S.ttl
    /\ s_cache_enabled' = S.enabled
    /\ s_cache_max_size' = S.max_size
    /\ s_cache_hits' = S.hits
    /\ s_cache_misses' = S.misses

MakeRequest(auth, method, url, params, out) ==
    LET is_get == method = "GET"
        \* _generate_cache_key runs before the try block, for GET
        encoding_fails == is_get /\ ~IsSerializable(params)
        cache_key == IF is_get /\ IsSerializable(params)
                     THEN ServerGenerateCacheKey(method, url, params)
                     ELSE <<method>>
        g == IF is_get THEN ServerGetFromCache(ServerStore, now, cache_key)
             ELSE [S |-> ServerStore, result |-> None]
        hit == is_get /\ g.result # None
        S1 == IF method \in WriteMethods THEN ServerCleared(g.S) ELSE g.S
        p == IF out.status = "ok" /\ is_get
             THEN ServerPutInCache(S1, now, cache_key, out.value)
             ELSE [S |-> S1, raised |-> FALSE]
        final == IF hit THEN g.S ELSE p.S
        error_message == IF out.api_message # "" THEN out.api_message ELSE out.msg
        raised == ~hit /\ (out.status = "error" \/ p.raised)
        ret == IF hit THEN g.result
               ELSE IF raised THEN None
               ELSE IF out.status = "ok" THEN out.value
               ELSE EmptyDict
        err == IF ~raised THEN <<>>
               ELSE IF out.status = "error"
               THEN <<"SmartThings API request failed: ", error_message>>
               ELSE <<"KeyError: ", KeyErrorText>>
        lookup == IF g.S.hits > s_cache_hits THEN "hit"
                  ELSE IF g.S.misses > s_cache_misses THEN "miss" ELSE "none"
        used == s_cache_enabled
                    /\ (lookup = "hit" \/ (is_get /\ ~hit /\ out.status = "ok"))
    IN  /\ program = "server"
        /\ IF encoding_fails
           THEN /\ UNCHANGED <<svars, useOrder>>
                /\ last' = [NoCall EXCEPT !.op = <<method>>, !.auth = auth,
                                          !.params = params,
                                          !.failed = TRUE, !.raised = TRUE,
                                          !.err = <<"TypeError: ", TypeErrorText>>]
           ELSE /\ SetServer(final)
                /\ useOrder' = Prune(IF used THEN Use(useOrder, cache_key) ELSE useOrder,
                                     final.cache)
                /\ last' = [op |-> <<method>>, admin |-> "", auth |-> auth,
                            key |-> cache_key,
                            params |-> IF is_get THEN params ELSE <<>>, lookup |-> lookup,
                            dispatched |-> IF hit THEN 0 ELSE 1,
                            failed |-> raised,
                            cause |-> IF ~hit /\ out.status = "error" THEN out.msg ELSE "",
                            fetched |-> IF hit \/ out.status = "error" THEN None
                                        ELSE IF out.status = "ok" THEN out.value ELSE EmptyBody,
                            raised |-> raised, ret |-> ret, err |-> err,
                            expired |-> Len(g.S.cache) < Len(server_cache),
                            evicted |-> IF hit \/ out.status # "ok" \/ ~is_get \/ ~s_cache_enabled THEN 0
                                        ELSE Len(S1.cache) + 1 - Len(p.S.cache)
                                             - (IF Contains(S1.cache, cache_key) THEN 1 ELSE 0),
                            victims |-> IF hit \/ out.status # "ok" \/ ~is_get
                                            \/ ~s_cache_enabled
                                        THEN <<>>
                                        ELSE Evicted(S1.cache, p.S.cache, cache_key),
                            purged |-> IF hit THEN 0 ELSE Len(g.S.cache) - Len(S1.cache)]
        /\ UNCHANGED <<upstream, threads, program, now, cvars>>

\* _clear_cache, called on its own
ServerClearCache ==
    /\ program = "server"
    /\ SetServer(ServerCleared(ServerStore))
    /\ useOrder' = <<>>
    /\ last' = Admin("clear_cache", Len(server_cache))
    /\ UNCHANGED <<upstream, threads, program, now, cvars>>

\* get_cache_stats of either program: reads the store and changes nothing
GetStats ==
    /\ last' = Admin("get_cache_stats", 0)
    /\ UNCHANGED <<upstream, threads, program, now, cvars, svars, useOrder>>

\* the clock advances
Tick ==
    /\ now < MaxTime
    /\ now' = now + 1
    /\ UNCHANGED <<upstream, threads, program, cvars, svars, useOrder, last>>

(***************************************************************************)
(* Calls in flight.  In the sequential specifications no call is in flight *)
(* between two steps and threads stays NoThreads.                          *)
(***************************************************************************)
Threads == {"t1", "t2"}

\* the response body of a read of the remote resource after v writes
RevisionNames == <<"r1", "r2", "r3", "r4", "r5", "r6", "r7", "r8", "r9">>
Revision(v) == Json(RevisionNames[IF v < Len(RevisionNames) THEN v + 1
                                  ELSE Len(RevisionNames)])

\* a thread's position (pc), the request it serves (method and key on the
\* server, tool and key on the client), the value it read from the store or
\* fetched (result), the exception that ended its call (err) and the number
\* of calls it has started (calls)
IdleThread ==
    [pc |-> "idle", method |-> "", tool |-> <<>>, key |-> <<>>, result |-> None,
     err |-> "", calls |-> 0]
NoThreads == [t \in Threads |-> IdleThread]

(***************************************************************************)
(* Inputs and specifications.                                              *)
(***************************************************************************)
\* a TTL under which every entry is expired at once, and the largest TTL
TTLValues == {0, MaxTTL}
MaxSizeValues == {0, 1, MaxCacheSize}

\* Spec: a cacheable read, a write that targets it, a read that is not
\* cacheable; two parameter sets
Tools == { <<"list_rules">>, <<"delete_rule">>, <<"get_device", "_status">> }
ParamSets == { <<>>, << <<"location_id", "L1">>, <<"rule_id", "R1">> >> }

Credentials == {"tokenA"}
Methods == {"GET", "POST", "PUT", "DELETE", "PATCH"}
Urls == { <<BASE_URL, "rules">> }
QueryParams == { <<>>, << <<"locationId", "L1">> >> }

InitClient ==
    /\ cache = <<>>
    /\ cache_ttl \in TTLValues
    /\ cache_enabled \in BOOLEAN
    /\ max_cache_size \in MaxSizeValues
    /\ cache_hits = 0
    /\ cache_misses = 0

InitServer ==
    /\ server_cache = <<>>
    /\ s_cache_ttl \in TTLValues
    /\ s_cache_enabled \in BOOLEAN
    /\ s_cache_max_size \in MaxSizeValues
    /\ s_cache_hits = 0
    /\ s_cache_misses = 0

\* the program that is not running stays as constructed with the largest
\* configuration
IdleClient ==
    /\ cache = <<>>
    /\ cache_ttl = MaxTTL
    /\ cache_enabled = TRUE
    /\ max_cache_size = MaxCacheSize
    /\ cache_hits = 0
    /\ cache_misses = 0

IdleServer ==
    /\ server_cache = <<>>
    /\ s_cache_ttl = MaxTTL
    /\ s_cache_enabled = TRUE
    /\ s_cache_max_size = MaxCacheSize
    /\ s_cache_hits = 0
    /\ s_cache_misses = 0

Init ==
    /\ program \in {"client", "server"}
    /\ now = 0
    /\ threads = NoThreads
    /\ upstream = 0
    /\ useOrder = <<>>
    /\ last = NoCall
    /\ IF program = "client" THEN InitClient /\ IdleServer
       ELSE IdleClient /\ InitServer

\* the counters are capped: a lookup is made only below the cap
ClientBelow(cap, tool_name) ==
    (tool_name \in CACHEABLE_OPERATIONS /\ cache_enabled)
        => cache_hits + cache_misses < cap
ServerBelow(cap, method) ==
    (method = "GET" /\ s_cache_enabled) => s_cache_hits + s_cache_misses < cap

Next ==
    \/ \E t \in Tools, p \in ParamSets, o \in DispatchOutcomes :
          ClientBelow(MaxLookups, t) /\ CallTool(t, p, o)
    \/ ClearCache
    \/ \E b \in BOOLEAN : SetCacheEnabled(b)
    \/ \E s \in TTLValues : SetCacheTTL(s)
    \/ \E a \in Credentials, m \in Methods, u \in Urls, q \in QueryParams,
          o \in UpstreamOutcomes :
          ServerBelow(MaxLookups, m) /\ MakeRequest(a, m, u, q, o)
    \/ ServerClearCache
    \/ Tick

Spec == Init /\ [][Next]_vars

(***************************************************************************)
(* SpecLRU: both programs with a store of MaxCacheSize entries that never  *)
(* expire within the run, and more keys than the store holds.              *)
(***************************************************************************)
LruLookups == 4

LruTools == { <<"list_rules">>, <<"get_rule">> }
LruUrls == { <<BASE_URL, "rules">>, <<BASE_URL, "devices">> }
FetchedOnce == [ok |-> TRUE, value |-> Json("r1"), msg |-> ""]
RespondedOnce == [status |-> "ok", value |-> Json("r1"), msg |-> "", api_message |-> ""]

InitLRU ==
    /\ program \in {"client", "server"}
    /\ now = 0
    /\ threads = NoThreads
    /\ upstream = 0
    /\ useOrder = <<>>
    /\ last = NoCall
    /\ IdleClient
    /\ IdleServer

NextLRU ==
    \/ \E t \in LruTools, p \in ParamSets :
          ClientBelow(LruLookups, t) /\ CallTool(t, p, FetchedOnce)
    \/ \E a \in Credentials, u \in LruUrls, q \in QueryParams :
          ServerBelow(LruLookups, "GET") /\ MakeRequest(a, "GET", u, q, RespondedOnce)

SpecLRU == InitLRU /\ [][NextLRU]_vars

(***************************************************************************)
(* SpecCatalog: the client with every tool of the catalog, enabled, with   *)
(* entries that never expire within the run.                               *)
(***************************************************************************)
CatalogLookups == 2

\* tools of the client that are in neither set of the catalog
UnclassifiedTools ==
    { <<"get_device", "_status">>, <<"get_mode">>, <<"create_scene">>,
      <<"update_scene">>, <<"delete_scene">> }

\* the client methods that create, update or delete a resource
MutatingTools ==
    { <<"create_location">>, <<"update_location">>, <<"delete_location">>,
      <<"create_room">>, <<"update_room">>, <<"delete_room">>,
      <<"update_device">>, <<"delete_device">>,
      <<"create_rule">>, <<"update_rule">>, <<"delete_rule">>,
      <<"create_scene">>, <<"update_scene">>, <<"delete_scene">> }

AllTools == CACHEABLE_OPERATIONS \cup CACHE_INVALIDATING_OPERATIONS \cup UnclassifiedTools

CatalogParams(tool_name) ==
    IF tool_name = <<"list_rules">> THEN ParamSets ELSE { <<>> }

InitCatalog ==
    /\ program = "client"
    /\ now = 0
    /\ threads = NoThreads
    /\ upstream = 0
    /\ useOrder = <<>>
    /\ last = NoCall
    /\ IdleClient
    /\ IdleServer

NextCatalog ==
    \E t \in AllTools : \E p \in CatalogParams(t) :
        ClientBelow(CatalogLookups, t) /\ CallTool(t, p, FetchedOnce)

SpecCatalog == InitCatalog /\ [][NextCatalog]_vars

(***************************************************************************)
(* SpecKeys: reads whose parameters are the same mappings built in         *)
(* different insertion orders, flat and nested.                            *)
(***************************************************************************)
KeyLookups == 3

KeyTools == { <<"list_rules">>, <<"get_rule">> }
KeyParamSets ==
    { <<>>,
      << <<"location_id", "L1">>, <<"rule_id", "R1">> >>,
      << <<"rule_id", "R1">>, <<"location_id", "L1">> >>,
      << <<"filter", "{}", << <<"capability", "switch">>, <<"location_id", "L1">> >> >> >>,
      << <<"filter", "{}", << <<"location_id", "L1">>, <<"capability", "switch">> >> >> >> }
KeyUrls == { <<BASE_URL, "devices">> }
KeyQueryParams ==
    { <<>>,
      << <<"locationId", "L1">> >>,
      << <<"capability", "switch">>, <<"locationId", "L1">> >>,
      << <<"locationId", "L1">>, <<"capability", "switch">> >> }

NextKeys ==
    \/ \E t \in KeyTools, p \in KeyParamSets :
          ClientBelow(KeyLookups, t) /\ CallTool(t, p, FetchedOnce)
    \/ \E a \in Credentials, u \in KeyUrls, q \in KeyQueryParams :
          ServerBelow(KeyLookups, "GET") /\ MakeRequest(a, "GET", u, q, RespondedOnce)

SpecKeys == InitLRU /\ [][NextKeys]_vars

(***************************************************************************)
(* SpecEncode: calls whose parameters hold a value that json.dumps cannot  *)
(* serialize, next to calls whose parameters can be serialized.            *)
(***************************************************************************)
EncodeLookups == 2

EncodeTools == { <<"list_rules">>, <<"get_rule">>, <<"delete_rule">> }
EncodeParamSets ==
    { <<>>,
      << <<"location_id", "L1">>, <<"rule_id", "R1">> >>,
      << <<"rule_id", "object", "set", <<>> >> >> }
EncodeQueryParams ==
    { <<>>,
      << <<"locationId", "L1">> >>,
      << <<"locationId", "object", "set", <<>> >> >> }

NextEncode ==
    \/ \E t \in EncodeTools, p \in EncodeParamSets, o \in DispatchOutcomes :
          ClientBelow(EncodeLookups, t) /\ CallTool(t, p, o)
    \/ \E a \in Credentials, m \in {"GET", "POST"}, u \in Urls,
          q \in EncodeQueryParams, o \in UpstreamOutcomes :
          ServerBelow(EncodeLookups, m) /\ MakeRequest(a, m, u, q, o)

SpecEncode == InitLRU /\ [][NextEncode]_vars

(***************************************************************************)
(* SpecConfig: the client constructed with, or updated to, any ttl and     *)
(* maximum size an int argument can carry, negative ones included.         *)
(***************************************************************************)
ConfigLookups == 3

\* values of the cache_ttl and max_cache_size arguments
ConfigValues == {-1, 0, 1}

InitConfig ==
    /\ program = "client"
    /\ now = 0
    /\ threads = NoThreads
    /\ upstream = 0
    /\ useOrder = <<>>
    /\ last = NoCall
    /\ cache = <<>>
    /\ cache_ttl \in ConfigValues
    /\ cache_enabled = TRUE
    /\ max_cache_size \in ConfigValues
    /\ cache_hits = 0
    /\ cache_misses = 0
    /\ IdleServer

NextConfig ==
    \/ \E t \in Tools, p \in ParamSets, o \in DispatchOutcomes :
          ClientBelow(ConfigLookups, t) /\ CallTool(t, p, o)
    \/ \E s \in ConfigValues : SetCacheTTL(s)

SpecConfig == InitConfig /\ [][NextConfig]_vars

(***************************************************************************)
(* SpecThreads: the server with concurrent make_request calls, one per     *)
(* thread.  A step is one statement of make_request, _get_from_cache,      *)
(* _put_in_cache or _clear_cache that touches the shared dict (each dict   *)
(* operation is atomic under the interpreter lock); a counter update is    *)
(* taken together with the statement before it.  No lock is held between   *)
(* steps.  An exception other than RequestException leaves make_request.   *)
(***************************************************************************)
ThreadCalls == 2

ThreadMethods == {"GET", "POST"}

SetThread(t, rec) == threads' = [threads EXCEPT ![t] = rec]
At(t, pc) == program = "server" /\ threads[t].pc = pc
Raise(t, e) == [threads[t] EXCEPT !.pc = "raised", !.err = e]

\* make_request is entered: a GET goes to _get_from_cache, a write to
\* _clear_cache
ReqStart(t, method, url, params) ==
    /\ program = "server"
    /\ threads[t].pc \in {"idle", "done", "raised"}
    /\ threads[t].calls < ThreadCalls
    /\ SetThread(t, [pc |-> IF method = "GET" THEN "get_check" ELSE "clear",
                     method |-> method, tool |-> <<>>,
                     key |-> IF method = "GET"
                             THEN ServerGenerateCacheKey(method, url, params)
                             ELSE <<method>>,
                     result |-> None, err |-> "",
                     calls |-> threads[t].calls + 1])
    /\ UNCHANGED <<upstream, program, now, cvars, svars, useOrder, last>>

\* _get_from_cache: if not _cache_enabled: return None;
\* if cache_key in _server_cache
GetCheck(t) ==
    /\ At(t, "get_check")
    /\ SetThread(t, [threads[t] EXCEPT !.pc =
            IF ~s_cache_enabled THEN "request"
            ELSE IF Contains(server_cache, threads[t].key) THEN "get_read"
            ELSE "get_miss"])
    /\ UNCHANGED <<upstream, program, now, cvars, svars, useOrder, last>>

\* result, timestamp = _server_cache[cache_key]; if _is_cache_valid(timestamp)
GetRead(t) ==
    /\ At(t, "get_read")
    /\ IF ~Contains(server_cache, threads[t].key)
       THEN SetThread(t, Raise(t, "KeyError"))
       ELSE LET e == Lookup(server_cache, threads[t].key)
            IN  SetThread(t, [threads[t] EXCEPT
                    !.result = e.value,
                    !.pc = IF ServerIsCacheValid(ServerStore, now, e.ts)
                           THEN "get_move" ELSE "get_del"])
    /\ UNCHANGED <<upstream, program, now, cvars, svars, useOrder, last>>

\* _server_cache.move_to_end(cache_key); _cache_hits += 1; return result
GetMoveToEnd(t) ==
    /\ At(t, "get_move")
    /\ IF ~Contains(server_cache, threads[t].key)
       THEN SetThread(t, Raise(t, "KeyError")) /\ UNCHANGED svars
       ELSE /\ SetServer([ServerStore EXCEPT
                    !.cache = MoveToEnd(server_cache, threads[t].key),
                    !.hits = @ + 1])
            \* make_request: if cached_result is not None: return cached_result
            /\ SetThread(t, [threads[t] EXCEPT !.pc =
                    IF threads[t].result # None THEN "done" ELSE "request"])
    /\ UNCHANGED <<upstream, program, now, cvars, useOrder, last>>

\* del _server_cache[cache_key]; _cache_misses += 1; return None
GetDelete(t) ==
    /\ At(t, "get_del")
    /\ IF ~Contains(server_cache, threads[t].key)
       THEN SetThread(t, Raise(t, "KeyError")) /\ UNCHANGED svars
       ELSE /\ SetServer([ServerStore EXCEPT
                    !.cache = DelItem(server_cache, threads[t].key),
                    !.misses = @ + 1])
            /\ SetThread(t, [threads[t] EXCEPT !.pc = "request", !.result = None])
    /\ UNCHANGED <<upstream, program, now, cvars, useOrder, last>>

\* the key is not stored: _cache_misses += 1; return None
GetMiss(t) ==
    /\ At(t, "get_miss")
    /\ SetServer([ServerStore EXCEPT !.misses = @ + 1])
    /\ SetThread(t, [threads[t] EXCEPT !.pc = "request"])
    /\ UNCHANGED <<upstream, program, now, cvars, useOrder, last>>

\* make_request on a write method: _clear_cache()
WriteClear(t) ==
    /\ At(t, "clear")
    /\ SetServer(ServerCleared(ServerStore))
    /\ SetThread(t, [threads[t] EXCEPT !.pc = "request"])
    /\ UNCHANGED <<upstream, program, now, cvars, useOrder, last>>

\* requests.request(...) returns or raises.  A write that is answered has
\* taken effect upstream; a GET is answered with the resource as it is now.
\* A GET response with content goes to _put_in_cache, which returns at once
\* when caching is disabled
SendRequest(t, out) ==
    /\ At(t, "request")
    /\ SetThread(t,
         IF out.status = "error" THEN Raise(t, "RequestException")
         ELSE IF out.status = "empty"
         THEN [threads[t] EXCEPT !.pc = "done", !.result = EmptyDict]
         ELSE [threads[t] EXCEPT
                 !.result = IF threads[t].method = "GET" THEN Revision(upstream)
                            ELSE out.value,
                 !.pc = IF threads[t].method = "GET" /\ s_cache_enabled
                        THEN "put_store" ELSE "done"])
    /\ upstream' = IF out.status # "error" /\ threads[t].method \in WriteMethods
                   THEN upstream + 1 ELSE upstream
    /\ UNCHANGED <<program, now, cvars, svars, useOrder, last>>

\* _server_cache[cache_key] = (result, time.time())
PutStore(t) ==
    /\ At(t, "put_store")
    /\ SetServer([ServerStore EXCEPT !.cache =
            SetItem(server_cache, Entry(threads[t].key, threads[t].result, now))])
    /\ SetThread(t, [threads[t] EXCEPT !.pc = "put_move"])
    /\ UNCHANGED <<upstream, program, now, cvars, useOrder, last>>

\* _server_cache.move_to_end(cache_key)
PutMoveToEnd(t) ==
    /\ At(t, "put_move")
    /\ IF ~Contains(server_cache, threads[t].key)
       THEN SetThread(t, Raise(t, "KeyError")) /\ UNCHANGED svars
       ELSE /\ SetServer([ServerStore EXCEPT
                    !.cache = MoveToEnd(server_cache, threads[t].key)])
            /\ SetThread(t, [threads[t] EXCEPT !.pc = "put_loop"])
    /\ UNCHANGED <<upstream, program, now, cvars, useOrder, last>>

\* while len(_server_cache) > _cache_max_size
PutLoop(t) ==
    /\ At(t, "put_loop")
    /\ SetThread(t, [threads[t] EXCEPT !.pc =
            IF Len(server_cache) > s_cache_max_size THEN "put_pop" ELSE "done"])
    /\ UNCHANGED <<upstream, program, now, cvars, svars, useOrder, last>>

\* _server_cache.popitem(last=False)
PutPopItem(t) ==
    /\ At(t, "put_pop")
    /\ IF Len(server_cache) = 0
       THEN SetThread(t, Raise(t, "KeyError")) /\ UNCHANGED svars
       ELSE /\ SetServer([ServerStore EXCEPT !.cache = PopFirst(server_cache)])
            /\ SetThread(t, [threads[t] EXCEPT !.pc = "put_loop"])
    /\ UNCHANGED <<upstream, program, now, cvars, useOrder, last>>

InitThreads ==
    /\ program = "server"
    /\ now = 0
    /\ threads = NoThreads
    /\ upstream = 0
    /\ useOrder = <<>>
    /\ last = NoCall
    /\ IdleClient
    /\ server_cache = <<>>
    /\ s_cache_ttl \in TTLValues
    /\ s_cache_enabled = TRUE
    /\ s_cache_max_size \in MaxSizeValues
    /\ s_cache_hits = 0
    /\ s_cache_misses = 0

NextThreads ==
    \E t \in Threads :
        \/ \E m \in ThreadMethods, u \in Urls, q \in QueryParams : ReqStart(t, m, u, q)
        \/ GetCheck(t)
        \/ GetRead(t)
        \/ GetMoveToEnd(t)
        \/ GetDelete(t)
        \/ GetMiss(t)
        \/ WriteClear(t)
        \/ \E o \in {RespondedOnce} \cup {x \in UpstreamOutcomes : x.status = "error"
                                                             /\ x.api_message = ""} :
              SendRequest(t, o)
        \/ PutStore(t)
        \/ PutMoveToEnd(t)
        \/ PutLoop(t)
        \/ PutPopItem(t)

SpecThreads == InitThreads /\ [][NextThreads]_vars

(***************************************************************************)
(* SpecStore: either program with two keys, results that may be null, and  *)
(* a clock, with the configuration fixed at construction.                  *)
(***************************************************************************)
StoreLookups == 3

StoreFetches ==
    {[ok |-> TRUE, value |-> v, msg |-> ""] : v \in {Json("r1"), None}}
        \cup {[ok |-> FALSE, value |-> None, msg |-> "Connection refused"]}
StoreResponses ==
    {[status |-> "ok", value |-> v, msg |-> "", api_message |-> ""] : v \in {Json("r1"), None}}
        \cup {[status |-> "error", value |-> None, msg |-> "404 Client Error",
                api_message |-> ""]}

\* no TTL, the TTL of one tick, and a TTL longer than the run
StoreTTLValues == {0, MaxTTL, MaxTime + 1}

InitStore ==
    /\ program \in {"client", "server"}
    /\ now = 0
    /\ threads = NoThreads
    /\ upstream = 0
    /\ useOrder = <<>>
    /\ last = NoCall
    /\ IF program = "client"
       THEN /\ cache = <<>>
            /\ cache_ttl \in StoreTTLValues
            /\ cache_enabled = TRUE
            /\ max_cache_size \in MaxSizeValues
            /\ cache_hits = 0
            /\ cache_misses = 0
            /\ IdleServer
       ELSE /\ server_cache = <<>>
            /\ s_cache_ttl \in StoreTTLValues
            /\ s_cache_enabled = TRUE
            /\ s_cache_max_size \in MaxSizeValues
            /\ s_cache_hits = 0
            /\ s_cache_misses = 0
            /\ IdleClient

NextStore ==
    \/ \E t \in LruTools, o \in StoreFetches :
          ClientBelow(StoreLookups, t) /\ CallTool(t, <<>>, o)
    \/ \E a \in Credentials, u \in LruUrls, o \in StoreResponses :
          ServerBelow(StoreLookups, "GET") /\ MakeRequest(a, "GET", u, <<>>, o)
    \/ GetStats
    \/ Tick

SpecStore == InitStore /\ [][NextStore]_vars

(***************************************************************************)
(* SpecCredentials: the server serving GET requests that carry one of two  *)
(* bearer credentials, each of which fetches its own response upstream.    *)
(***************************************************************************)
CredentialLookups == 3

BearerTokens == {"tokenA", "tokenB"}

\* the response of the upstream API to a GET sent with
\* "Authorization: Bearer <auth>"
OwnResponse(auth) ==
    [status |-> "ok", value |-> IF auth = "tokenA" THEN Json("r1") ELSE Json("r2"),
     msg |-> "", api_message |-> ""]

InitCredentials ==
    /\ program = "server"
    /\ now = 0
    /\ threads = NoThreads
    /\ upstream = 0
    /\ useOrder = <<>>
    /\ last = NoCall
    /\ IdleClient
    /\ IdleServer

NextCredentials ==
    \E a \in BearerTokens, u \in LruUrls, q \in QueryParams :
        ServerBelow(CredentialLookups, "GET") /\ MakeRequest(a, "GET", u, q, OwnResponse(a))

SpecCredentials == InitCredentials /\ [][NextCredentials]_vars

(***************************************************************************)
(* SpecTasks: the client with two call_tool coroutines in flight on one    *)
(* event loop.  A coroutine runs without interruption up to                *)
(* `await client.call_tool(...)`; the remote side serves the call at some  *)
(* later point, and the coroutine resumes at some point after that.        *)
(***************************************************************************)
TaskTools == { <<"list_rules">>, <<"delete_rule">> }

OnClient(t, pc) == program = "client" /\ threads[t].pc = pc

\* call_tool up to the await: the lookup of a cacheable tool; a hit returns
TaskStart(t, tool_name, params) ==
    LET is_cacheable == IsCacheable(tool_name)
        cache_key == GenerateCacheKey(tool_name, params)
        g == IF is_cacheable THEN GetFromCache(ClientStore, now, cache_key)
             ELSE [S |-> ClientStore, result |-> None]
        hit == is_cacheable /\ g.result # None
    IN  /\ program = "client"
        /\ threads[t].pc \in {"idle", "done"}
        /\ threads[t].calls < ThreadCalls
        /\ SetClient(g.S)
        /\ SetThread(t, [pc |-> IF hit THEN "done" ELSE "dispatch",
                         method |-> "", tool |-> tool_name, key |-> cache_key,
                         result |-> g.result, err |-> "",
                         calls |-> threads[t].calls + 1])
        /\ UNCHANGED <<upstream, program, now, svars, useOrder, last>>

\* the remote side serves the call: a write takes effect, a read is
\* answered with the resource as it is now; a failure raises at the await
\* and call_tool returns {"error": str(e)}
TaskServe(t, ok) ==
    LET is_write_op == threads[t].tool \in CACHE_INVALIDATING_OPERATIONS
    IN  /\ OnClient(t, "dispatch")
        /\ SetThread(t, IF ok
                        THEN [threads[t] EXCEPT !.pc = "resume",
                                                !.result = Revision(
                                                    IF is_write_op THEN upstream + 1
                                                    ELSE upstream)]
                        ELSE [threads[t] EXCEPT !.pc = "done", !.err = "Exception",
                                                !.result = ErrorDict("Connection refused")])
        /\ upstream' = IF ok /\ is_write_op THEN upstream + 1 ELSE upstream
        /\ UNCHANGED <<program, now, cvars, svars, useOrder, last>>

\* the coroutine resumes with the result: _put_in_cache for a cacheable
\* tool, _invalidate_cache_for_operation for a write, return result
TaskResume(t) ==
    LET tool_name == threads[t].tool
        p == IF IsCacheable(tool_name)
             THEN PutInCache(ClientStore, now, threads[t].key, threads[t].result)
             ELSE [S |-> ClientStore, raised |-> FALSE]
        S2 == IF ~p.raised /\ tool_name \in CACHE_INVALIDATING_OPERATIONS
              THEN InvalidateCacheForOperation(p.S, tool_name) ELSE p.S
    IN  /\ OnClient(t, "resume")
        /\ SetClient(S2)
        /\ SetThread(t, IF p.raised
                        THEN [threads[t] EXCEPT !.pc = "done", !.err = "KeyError",
                                                !.result = ErrorDict(KeyErrorText)]
                        ELSE [threads[t] EXCEPT !.pc = "done"])
        /\ UNCHANGED <<upstream, program, now, svars, useOrder, last>>

InitTasks ==
    /\ program = "client"
    /\ now = 0
    /\ threads = NoThreads
    /\ upstream = 0
    /\ useOrder = <<>>
    /\ last = NoCall
    /\ cache = <<>>
    /\ cache_ttl \in StoreTTLValues
    /\ cache_enabled = TRUE
    /\ max_cache_size \in MaxSizeValues
    /\ cache_hits = 0
    /\ cache_misses = 0
    /\ IdleServer

NextTasks ==
    \/ \E t \in Threads :
          \/ \E tool \in TaskTools : TaskStart(t, tool, <<>>)
          \/ \E ok \in BOOLEAN : TaskServe(t, ok)
          \/ TaskResume(t)
    \/ Tick

SpecTasks == InitTasks /\ [][NextTasks]_vars

(***************************************************************************)
(* SpecAging: either program with a full-size store, more keys than it     *)
(* holds, and a TTL that ends within the run, so that entries of different *)
(* ages and recencies are stored together.                                 *)
(***************************************************************************)
AgingTime == 2
AgingLookups == 4

\* time passes, up to the TTL
Elapse ==
    /\ now < AgingTime
    /\ now' = now + 1
    /\ UNCHANGED <<upstream, threads, program, cvars, svars, useOrder, last>>

InitAging ==
    /\ program \in {"client", "server"}
    /\ now = 0
    /\ threads = NoThreads
    /\ upstream = 0
    /\ useOrder = <<>>
    /\ last = NoCall
    /\ cache = <<>>
    /\ cache_ttl = AgingTime
    /\ cache_enabled = TRUE
    /\ max_cache_size = MaxCacheSize
    /\ cache_hits = 0
    /\ cache_misses = 0
    /\ server_cache = <<>>
    /\ s_cache_ttl = AgingTime
    /\ s_cache_enabled = TRUE
    /\ s_cache_max_size = MaxCacheSize
    /\ s_cache_hits = 0
    /\ s_cache_misses = 0

NextAging ==
    \/ \E t \in LruTools, p \in ParamSets :
          ClientBelow(AgingLookups, t) /\ CallTool(t, p, FetchedOnce)
    \/ \E a \in Credentials, u \in LruUrls, q \in QueryParams :
          ServerBelow(AgingLookups, "GET") /\ MakeRequest(a, "GET", u, q, RespondedOnce)
    \/ Elapse

SpecAging == InitAging /\ [][NextAging]_vars

(***************************************************************************)
(* Vocabulary of the properties.                                           *)
(***************************************************************************)
\* the store of the running program
CurCache == IF program = "client" THEN cache ELSE server_cache
CurTTL == IF program = "client" THEN cache_ttl ELSE s_cache_ttl
CurEnabled == IF program = "client" THEN cache_enabled ELSE s_cache_enabled
CurMaxSize == IF program = "client" THEN max_cache_size ELSE s_cache_max_size
CurHits == IF program = "client" THEN cache_hits ELSE s_cache_hits
CurMisses == IF program = "client" THEN cache_misses ELSE s_cache_misses

\* the step is a call_tool or make_request call; last' describes it
CallStep == now' = now /\ last'.op # <<>>

IsRead(op) ==
    IF program = "client" THEN op \in CACHEABLE_OPERATIONS ELSE op = <<"GET">>
IsWrite(op) ==
    IF program = "client" THEN op \in CACHE_INVALIDATING_OPERATIONS
    ELSE op \in { <<"POST">>, <<"PUT">>, <<"DELETE">>, <<"PATCH">> }

\* the operation name a key was built from: the key without ":<hash>"
OpOf(key) == SubSeq(key, 1, Len(key) - 2)

\* the operation names a client write lists as its invalidation targets
TargetsOf(op) ==
    IF op \in DOMAIN INVALIDATION_PATTERNS
    THEN {INVALIDATION_PATTERNS[op][i] : i \in DOMAIN INVALIDATION_PATTERNS[op]}
    ELSE {}

\* an entry under the key is stored and past its TTL at the current time
IsExpired(d, key) == Contains(d, key) /\ (now - Lookup(d, key).ts) >= CurTTL

(***************************************************************************)
(* C1: with caching enabled, two successive calls of the same cacheable    *)
(* operation with the same parameters, with no write, expiry, eviction or  *)
(* clear in between, invoke the dispatcher once: the second call makes no  *)
(* remote call and returns the value the first call returned.              *)
(***************************************************************************)
C1_HitSuppressesDispatch ==
    [][ ( /\ CallStep
          /\ IsRead(last'.op)
          /\ CurEnabled /\ CurMaxSize >= 1
          /\ last.key = last'.key /\ ~last.failed
          /\ ~IsExpired(CurCache, last'.key) )
        => (last'.dispatched = 0 /\ last'.ret = last.ret) ]_vars

(***************************************************************************)
(* C2: after any server make_request whose method is POST, PUT, DELETE or  *)
(* PATCH the server store is empty, whatever it held before and whether    *)
(* the upstream request succeeded or failed.                               *)
(***************************************************************************)
C2_WriteClearsServerStore ==
    [][ ( /\ program = "server"
          /\ CallStep
          /\ last'.op \in { <<"POST">>, <<"PUT">>, <<"DELETE">>, <<"PATCH">> } )
        => Len(server_cache') = 0 ]_vars

\* a failed PATCH has just cleared a store of two entries
C2_Witness ==
    /\ program = "server"
    /\ last.op = <<"PATCH">> /\ last.raised /\ last.purged = 2
    /\ Len(server_cache) = 0

(***************************************************************************)
(* C3: a write operation whose dispatcher call fails still has its         *)
(* invalidation applied: after the failed write returns, no entry the      *)
(* write targets remains in the store (client: the listed prefixes;        *)
(* server: every entry).                                                   *)
(***************************************************************************)
C3_FailedWriteStillInvalidates ==
    [][ ( /\ CallStep
          /\ IsWrite(last'.op)
          /\ last'.failed )
        => \A k \in Keys(CurCache') :
              /\ program = "server" => FALSE
              /\ program = "client" => OpOf(k) \notin TargetsOf(last'.op) ]_vars

(***************************************************************************)
(* C4: after a client write operation W succeeds with caching enabled, the *)
(* store holds no entry of an operation that INVALIDATION_PATTERNS lists   *)
(* for W, under whichever parameters the entries were cached.              *)
(***************************************************************************)
C4_PreciseInvalidationComplete ==
    [][ ( /\ program = "client"
          /\ CallStep
          /\ last'.op \in CACHE_INVALIDATING_OPERATIONS
          /\ ~last'.failed
          /\ cache_enabled )
        => \A k \in Keys(cache') : OpOf(k) \notin TargetsOf(last'.op) ]_vars

\* create_rule has just purged the list_rules entries of both parameter sets
C4_Witness ==
    /\ program = "client"
    /\ last.op = <<"create_rule">> /\ ~last.failed /\ last.purged = 2
    /\ cache = <<>>

(***************************************************************************)
(* C5: a client write operation W removes only entries of the operations   *)
(* listed for W: every other entry keeps its value, its timestamp and its  *)
(* place in the recency order, no entry is added, and the hit and miss     *)
(* counters are unchanged.                                                 *)
(***************************************************************************)
C5_PreciseInvalidationLimited ==
    [][ ( /\ program = "client"
          /\ CallStep
          /\ last'.op \in CACHE_INVALIDATING_OPERATIONS )
        => /\ SelectSeq(cache', LAMBDA e : OpOf(e.key) \notin TargetsOf(last'.op))
                = SelectSeq(cache, LAMBDA e : OpOf(e.key) \notin TargetsOf(last'.op))
           /\ Keys(cache') \subseteq Keys(cache)
           /\ cache_hits' = cache_hits
           /\ cache_misses' = cache_misses ]_vars

\* update_device has just purged a get_device entry and left the
\* get_device_components entry
C5_Witness ==
    /\ program = "client"
    /\ last.op = <<"update_device">> /\ last.purged = 1
    /\ Len(cache) = 1
    /\ OpOf(cache[1].key) = <<"get_device", "_components">>

(***************************************************************************)
(* C6: when the remote call fails, call_tool and make_request raise to     *)
(* their caller, and the error carries the dispatcher's message unchanged. *)
(***************************************************************************)
C6_FailurePropagates ==
    [][ (CallStep /\ last'.cause # "")
        => (last'.raised /\ last'.err = <<last'.cause>>) ]_vars

(***************************************************************************)
(* C7 as claimed: when a cacheable call misses and the dispatcher call     *)
(* fails, the store's entries are the same after the call as before it.    *)
(***************************************************************************)
C7_FailedFetchLeavesStore ==
    [][ ( /\ CallStep
          /\ IsRead(last'.op)
          /\ last'.lookup = "miss"
          /\ last'.failed )
        => CurCache' = CurCache ]_vars

(***************************************************************************)
(* C7 amended: when a cacheable call misses and the dispatcher call fails, *)
(* the call stores nothing: the store after the call is the store before   *)
(* it without the call's key, and an entry was removed only if it was      *)
(* stored under the call's key and past its TTL; the next identical call   *)
(* is again a miss that invokes the dispatcher.                            *)
(***************************************************************************)
C7_FailedFetchStoresNothing ==
    [][ /\ ( /\ CallStep
              /\ IsRead(last'.op)
              /\ last'.lookup = "miss"
              /\ last'.failed )
            => /\ CurCache' = DelItem(CurCache, last'.key)
               /\ Contains(CurCache, last'.key) => IsExpired(CurCache, last'.key)
        /\ ( /\ CallStep
              /\ last.key = last'.key
              /\ IsRead(last.op) /\ last.lookup = "miss" /\ last.failed )
            => (last'.lookup = "miss" /\ last'.dispatched = 1) ]_vars

\* a failed fetch whose lookup removed an expired entry
C7_Witness ==
    /\ IsRead(last.op) /\ last.lookup = "miss" /\ last.failed /\ last.expired
    /\ ~Contains(CurCache, last.key)

(***************************************************************************)
(* C8: whenever a cacheable call misses and the dispatcher call succeeds,  *)
(* with caching enabled and maxSize >= 1, the returned result is stored    *)
(* under the call's key, for every successful result including an empty    *)
(* response body.                                                          *)
(***************************************************************************)
C8_StoreOnSuccess ==
    [][ ( /\ CallStep
          /\ IsRead(last'.op)
          /\ CurEnabled /\ CurMaxSize >= 1
          /\ last'.lookup = "miss"
          /\ ~last'.failed )
        => /\ Contains(CurCache', last'.key)
           /\ Lookup(CurCache', last'.key).value = last'.ret ]_vars

(***************************************************************************)
(* C9: in every reachable state the number of stored entries is at most    *)
(* the configured maximum size, for maxSize >= 0.                          *)
(***************************************************************************)
C9_SizeBound ==
    /\ max_cache_size >= 0 => Len(cache) <= max_cache_size
    /\ s_cache_max_size >= 0 => Len(server_cache) <= s_cache_max_size

\* a put has just evicted an entry from a full store
C9_Witness ==
    /\ last.evicted = 1
    /\ CurMaxSize = 1 /\ Len(CurCache) = 1

(***************************************************************************)
(* C10: when a put makes the store exceed maxSize, every entry removed was *)
(* used (put or hit) less recently than every entry that stays; a hit      *)
(* refreshes the recency of its key.                                       *)
(***************************************************************************)
Before(order, a, b) ==
    \E i, j \in DOMAIN order : i < j /\ order[i] = a /\ order[j] = b

C10_LruEvictionOrder ==
    [][ (CallStep /\ IsRead(last'.op))
        => LET recency == Use(useOrder, last'.key)
               removed == (Keys(CurCache) \cup {last'.key}) \ Keys(CurCache')
           IN  /\ Cardinality(removed) = last'.evicted
               /\ \A e \in removed : \A k \in Keys(CurCache') : Before(recency, e, k) ]_vars

\* a put has just evicted an entry after an earlier hit refreshed another
C10_Witness ==
    /\ last.evicted = 1 /\ last.lookup = "miss"
    /\ CurHits = 1 /\ CurMisses = 3
    /\ Len(CurCache) = 2

(***************************************************************************)
(* C11: the TTL boundary is strict.  With caching enabled, a read of a key *)
(* whose entry is stored with (now - storedAt) < ttl is counted as a hit   *)
(* and not as a miss; a read of a key whose entry has                      *)
(* (now - storedAt) >= ttl, equality included, is counted as a miss and    *)
(* makes the remote call again.                                            *)
(***************************************************************************)
C11_TtlStrictBoundary ==
    [][ ( /\ CallStep
          /\ IsRead(last'.op)
          /\ CurEnabled
          /\ Contains(CurCache, last'.key) )
        => IF (now - Lookup(CurCache, last'.key).ts) < CurTTL
           THEN /\ last'.lookup = "hit"
                /\ CurHits' = CurHits + 1 /\ CurMisses' = CurMisses
           ELSE /\ last'.lookup = "miss"
                /\ last'.dispatched = 1 ]_vars

\* a read at time 1 of an entry stored at time 0 with ttl 1: age equal to
\* the TTL, counted as a miss
C11_Witness ==
    /\ now = 1 /\ CurTTL = 1
    /\ IsRead(last.op) /\ last.lookup = "miss" /\ last.expired
    /\ last.dispatched = 1

(***************************************************************************)
(* C12: counters of successive identical reads.  With caching enabled and  *)
(* maxSize >= 1, the first read after a clear leaves hits = 0 and          *)
(* misses = 1, and every further read of the same key that follows a read  *)
(* of that key that did not fail, with no expiry in between, adds one hit  *)
(* and no miss: n calls give hits = n - 1, misses = 1, total = n.          *)
(***************************************************************************)
C12_StatsAccuracy ==
    [][ /\ ( /\ CallStep /\ IsRead(last'.op)
              /\ CurEnabled /\ CurMaxSize >= 1
              /\ CurHits = 0 /\ CurMisses = 0 /\ Len(CurCache) = 0 )
            => (CurHits' = 0 /\ CurMisses' = 1)
        /\ ( /\ CallStep /\ IsRead(last'.op)
              /\ CurEnabled /\ CurMaxSize >= 1
              /\ IsRead(last.op) /\ last.key = last'.key /\ ~last.failed
              /\ CurMisses = 1
              /\ ~IsExpired(CurCache, last'.key) )
            => (CurHits' = CurHits + 1 /\ CurMisses' = 1) ]_vars

(***************************************************************************)
(* C13: set_cache_enabled(False) leaves the client store empty and both    *)
(* counters at zero; while caching is disabled no call is counted or       *)
(* served as a hit; the store is empty when caching is enabled again, and  *)
(* with caching enabled a read of a key that is not stored is a miss that  *)
(* makes the remote call, so the first read of every key after enabling    *)
(* is a miss whatever was cached before the disable.                       *)
(***************************************************************************)
C13_DisableClearsAndStartsCold ==
    [][ /\ (last'.admin = "set_cache_enabled" /\ ~cache_enabled')
            => (Len(cache') = 0 /\ cache_hits' = 0 /\ cache_misses' = 0)
        /\ (CallStep /\ ~CurEnabled)
            => (last'.lookup # "hit" /\ last'.dispatched = 1 /\ CurHits' = CurHits)
        /\ (last'.admin = "set_cache_enabled" /\ ~cache_enabled /\ cache_enabled')
            => Len(cache') = 0
        /\ (CallStep /\ IsRead(last'.op) /\ CurEnabled
                /\ ~Contains(CurCache, last'.key))
            => (last'.lookup = "miss" /\ last'.dispatched = 1) ]_vars

\* set_cache_enabled(False) has just removed two entries
C13_Witness ==
    /\ program = "client"
    /\ last.admin = "set_cache_enabled" /\ last.purged = 2
    /\ ~cache_enabled /\ Len(cache) = 0 /\ cache_hits = 0 /\ cache_misses = 0

(***************************************************************************)
(* C14: while caching is disabled every call, of a cacheable operation, a  *)
(* write or neither, makes exactly one remote call and, when that call     *)
(* succeeds, returns its result (an empty response body as {}); the store  *)
(* contents and both counters are the same after the call as before it;    *)
(* and whenever caching is disabled the store is empty.                    *)
(***************************************************************************)
C14_DisabledIsPassThrough ==
    [][ /\ (CallStep /\ ~CurEnabled)
            => /\ last'.dispatched = 1
               /\ ~last'.failed
                    => \/ last'.ret = last'.fetched
                       \/ (last'.fetched = EmptyBody /\ last'.ret = EmptyDict)
               /\ CurCache' = CurCache
               /\ CurHits' = CurHits /\ CurMisses' = CurMisses
        /\ ~CurEnabled => Len(CurCache) = 0
        /\ ~CurEnabled' => Len(CurCache') = 0 ]_vars

\* a cacheable read made while disabled: fetched, returned, not counted
C14_Witness ==
    /\ ~CurEnabled
    /\ IsRead(last.op) /\ last.lookup = "none" /\ last.dispatched = 1
    /\ last.ret = Json("r1")
    /\ Len(CurCache) = 0 /\ CurMisses = 0

(***************************************************************************)
(* C15: every key of the client store is built from an operation name of   *)
(* CACHEABLE_OPERATIONS and every key of the server store is the key of a  *)
(* GET request; a client call of an operation that is not cacheable (a     *)
(* write, or a read such as get_device_status) makes the remote call, adds *)
(* no entry and leaves hits and misses unchanged.                          *)
(***************************************************************************)
C15_OnlyCacheableStored ==
    [][ /\ \A k \in Keys(cache) \cup Keys(cache') : OpOf(k) \in CACHEABLE_OPERATIONS
        /\ \A k \in Keys(server_cache) \cup Keys(server_cache') :
              /\ k[1] = "GET"
              /\ \E u \in Urls, q \in QueryParams : k = ServerGenerateCacheKey("GET", u, q)
        /\ ( /\ program = "client"
              /\ CallStep
              /\ last'.op \notin CACHEABLE_OPERATIONS )
            => /\ last'.dispatched = 1
               /\ Keys(cache') \subseteq Keys(cache)
               /\ cache_hits' = cache_hits /\ cache_misses' = cache_misses ]_vars

\* get_device_status has just been fetched next to a stored list_rules
\* entry, and was neither stored nor counted
C15_Witness ==
    /\ program = "client" /\ cache_enabled
    /\ last.op = <<"get_device", "_status">> /\ last.dispatched = 1
    /\ last.ret = Json("r1") /\ last.lookup = "none"
    /\ Len(cache) = 1 /\ OpOf(cache[1].key) = <<"list_rules">>
    /\ cache_hits + cache_misses = 1

(***************************************************************************)
(* C16: the key of a read starts with "<operation name>:" (the method on   *)
(* the server), and two successive reads of the same operation whose       *)
(* parameter mappings hold the same name-value pairs at every nesting      *)
(* level, in whatever insertion order, get the same key.                   *)
(***************************************************************************)
RECURSIVE AsMapping(_)
AsMapping(params) ==
    { IF IsNested(params[i])
      THEN <<params[i][1], "{}", AsMapping(params[i][3])>>
      ELSE <<params[i][1], params[i][2], {}>> : i \in DOMAIN params }

C16_KeyDeterminism ==
    [][ (CallStep /\ IsRead(last'.op))
        => /\ StartsWith(last'.key, last'.op \o <<":">>)
           /\ ( /\ last.op = last'.op
                 /\ AsMapping(last.params) = AsMapping(last'.params) )
               => last'.key = last.key ]_vars

\* a read whose parameters were inserted as rule_id, location_id hit the
\* entry stored under the key of location_id, rule_id
C16_Witness ==
    /\ last.params = << <<"rule_id", "R1">>, <<"location_id", "L1">> >>
    /\ last.key = last.op \o <<":", "99d31c40">>
    /\ last.lookup = "hit" /\ last.dispatched = 0

(***************************************************************************)
(* C17: clear_cache (client) and _clear_cache (server) leave the store     *)
(* empty and hits and misses at zero, and leave ttl, maxSize and the       *)
(* enabled flag as they were; they can run in every state, whether caching *)
(* is enabled or disabled.                                                 *)
(***************************************************************************)
C17_ClearResetsContentsAndCounters ==
    [][ /\ last'.admin = "clear_cache"
            => /\ Len(CurCache') = 0 /\ CurHits' = 0 /\ CurMisses' = 0
               /\ CurTTL' = CurTTL /\ CurMaxSize' = CurMaxSize
               /\ CurEnabled' = CurEnabled
        /\ program = "client" => ENABLED ClearCache
        /\ program = "server" => ENABLED ServerClearCache ]_vars

\* a clear has just removed two entries
C17_Witness ==
    /\ last.admin = "clear_cache" /\ last.purged = 2
    /\ Len(CurCache) = 0 /\ CurHits = 0 /\ CurMisses = 0
    /\ CurEnabled

(***************************************************************************)
(* C18: set_cache_ttl leaves the entries (values, timestamps, order), the  *)
(* counters, the enabled flag and the maximum size as they were; the read  *)
(* that follows it counts a hit exactly when the entry's age               *)
(* (now - storedAt) is below the new ttl, so an entry can become a miss by *)
(* lowering the ttl and a hit again by raising it.                         *)
(***************************************************************************)
C18_SetTtlChangesNoEntry ==
    [][ /\ last'.admin = "set_cache_ttl"
            => /\ cache' = cache
               /\ cache_hits' = cache_hits /\ cache_misses' = cache_misses
               /\ cache_enabled' = cache_enabled
               /\ max_cache_size' = max_cache_size
        /\ ( /\ last.admin = "set_cache_ttl"
              /\ CallStep /\ IsRead(last'.op)
              /\ cache_enabled /\ Contains(cache, last'.key) )
            => (last'.lookup = "hit"
                    <=> (now - Lookup(cache, last'.key).ts) < cache_ttl) ]_vars

\* set_cache_ttl(0) has just run on a store that holds an entry and has
\* served a hit under the earlier, larger ttl
C18_Witness ==
    /\ program = "client"
    /\ last.admin = "set_cache_ttl" /\ cache_ttl = 0
    /\ Len(cache) >= 1 /\ cache_hits >= 1

(***************************************************************************)
(* C19: on the server, with caching enabled, maxSize >= 1 and no expiry,   *)
(* the first GET after a write request makes the upstream request and,     *)
(* when that succeeds, stores the response it returns; the next GET of the *)
(* same key is a hit that makes no upstream request.                       *)
(***************************************************************************)
C19_RefillAfterWrite ==
    [][ /\ ( /\ program = "server" /\ CallStep
              /\ last'.op = <<"GET">> /\ IsWrite(last.op)
              /\ s_cache_enabled /\ s_cache_max_size >= 1
              /\ ~last'.failed )
            => /\ last'.dispatched = 1
               /\ Contains(server_cache', last'.key)
               /\ Lookup(server_cache', last'.key).value = last'.ret
        /\ ( /\ program = "server" /\ CallStep
              /\ last'.op = <<"GET">> /\ last.op = <<"GET">>
              /\ last.key = last'.key
              /\ last.lookup = "miss" /\ ~last.failed
              /\ s_cache_enabled /\ s_cache_max_size >= 1
              /\ ~IsExpired(server_cache, last'.key) )
            => (last'.lookup = "hit" /\ last'.dispatched = 0) ]_vars

(***************************************************************************)
(* C20: when the parameters of a cacheable call cannot be serialized for   *)
(* key generation, the call is still dispatched, without cache lookup or   *)
(* store, and does not raise: the caller does not see the encoding         *)
(* failure.                                                                *)
(***************************************************************************)
C20_EncodingFailureIsBypass ==
    [][ ( /\ CallStep
          /\ IsRead(last'.op)
          /\ ~IsSerializable(last'.params) )
        => /\ last'.dispatched = 1
           /\ ~last'.raised
           /\ last'.lookup = "none"
           /\ CurCache' = CurCache ]_vars

(***************************************************************************)
(* C21: no client cache exists with a negative ttl or maximum size:        *)
(* construction with one fails, set_cache_ttl with a negative value leaves *)
(* the ttl as it was, and no call fails in the store because of a negative *)
(* ttl or maximum size.                                                    *)
(***************************************************************************)
C21_InvalidConfigRejected ==
    [][ /\ cache_ttl >= 0 /\ max_cache_size >= 0
        /\ last'.admin = "set_cache_ttl" => cache_ttl' >= 0
        /\ CallStep => last'.ret # ErrorDict(KeyErrorText) ]_vars

(***************************************************************************)
(* C22: under every interleaving of concurrent server make_request calls   *)
(* no store statement finds the entry it works on removed by another call  *)
(* (no lookup, move_to_end, del or popitem fails with KeyError), and the   *)
(* store holds at most maxSize entries whenever no put is in progress.     *)
(***************************************************************************)
PutInProgress(t) == threads[t].pc \in {"put_store", "put_move", "put_loop", "put_pop"}

C22_StoreOpsAreCriticalSections ==
    program = "server" =>
        /\ \A t \in Threads : threads[t].err # "KeyError"
        /\ (\A t \in Threads : ~PutInProgress(t))
                => Len(server_cache) <= s_cache_max_size


(***************************************************************************)
(* C23: a client write operation with no listed invalidation targets       *)
(* purges nothing: a successful call of execute_rule (empty target list)   *)
(* or execute_scene (no INVALIDATION_PATTERNS entry) leaves every stored   *)
(* entry, its timestamp, the recency order and the counters unchanged.     *)
(***************************************************************************)
C23_NoTargetsPurgesNothing ==
    [][ ( /\ program = "client"
          /\ CallStep
          /\ last'.op \in { <<"execute_rule">>, <<"execute_scene">> }
          /\ ~last'.failed )
        => /\ cache' = cache
           /\ useOrder' = useOrder
           /\ cache_hits' = cache_hits
           /\ cache_misses' = cache_misses ]_vars

\* execute_scene has completed over a store of two entries, which are kept
C23_Witness ==
    /\ program = "client"
    /\ last.op = <<"execute_scene">> /\ ~last.failed /\ last.dispatched = 1
    /\ INVALIDATION_PATTERNS[<<"execute_rule">>] = <<>>
    /\ <<"execute_scene">> \in CACHE_INVALIDATING_OPERATIONS \ DOMAIN INVALIDATION_PATTERNS
    /\ Len(cache) = 2


(***************************************************************************)
(* C24: an expired entry is removed when it is read: a read of a key whose *)
(* entry has (now - storedAt) >= ttl deletes that entry (the size drops by *)
(* one at the lookup), adds one to misses, leaves hits unchanged and       *)
(* reports absent, so the dispatcher is invoked; every other entry is      *)
(* unchanged, and the key is stored afterwards only as the entry the call  *)
(* itself has just put.                                                    *)
(***************************************************************************)
C24_ExpiredRemovedOnRead ==
    [][ ( /\ CallStep
          /\ IsRead(last'.op)
          /\ CurEnabled
          /\ IsExpired(CurCache, last'.key) )
        => /\ last'.expired
           /\ last'.lookup = "miss"
           /\ CurMisses' = CurMisses + 1
           /\ CurHits' = CurHits
           /\ last'.dispatched = 1
           /\ SelectSeq(CurCache', LAMBDA e : e.key # last'.key)
                = SelectSeq(CurCache, LAMBDA e : e.key # last'.key)
           /\ last'.failed => /\ CurCache' = DelItem(CurCache, last'.key)
                              /\ Len(CurCache') = Len(CurCache) - 1
           /\ Contains(CurCache', last'.key)
                => Lookup(CurCache', last'.key) = Entry(last'.key, last'.fetched, now) ]_vars

\* the read of an expired entry, whose fetch then failed, has removed it
\* and left the other entry of the store
C24_Witness ==
    /\ IsRead(last.op) /\ last.expired /\ last.lookup = "miss" /\ last.failed
    /\ CurTTL > 0
    /\ Len(CurCache) = 1
    /\ CurCache[1].key # last.key /\ CurCache[1].ts < now


(***************************************************************************)
(* C25: put replaces wholesale.  A call that stores its result under a key *)
(* that is still stored after the lookup replaces the value, sets storedAt *)
(* to the current time, leaves the entry most recently used, leaves the    *)
(* size and the other entries unchanged and evicts nothing; a call that    *)
(* stores a new key increases the size by one unless an eviction brings it *)
(* back to maxSize.                                                        *)
(***************************************************************************)
C25_PutReplacesWholesale ==
    [][ ( /\ CallStep
          /\ IsRead(last'.op)
          /\ CurEnabled
          /\ last'.dispatched = 1
          /\ last'.fetched \notin {EmptyBody}
          /\ ~last'.failed )
        => LET key == last'.key
               kept == Contains(CurCache, key) /\ ~IsExpired(CurCache, key)
               base == Len(DelItem(CurCache, key))
           IN  IF kept
               THEN /\ CurCache' = Append(DelItem(CurCache, key),
                                          Entry(key, last'.fetched, now))
                    /\ Len(CurCache') = Len(CurCache)
                    /\ last'.evicted = 0
               ELSE Len(CurCache') = IF base + 1 > CurMaxSize THEN CurMaxSize
                                     ELSE base + 1 ]_vars

\* a stored null result was read at a later time, fetched again and replaced
\* by the new result, next to an older entry
C25_Witness ==
    /\ IsRead(last.op) /\ last.lookup = "hit" /\ last.dispatched = 1 /\ ~last.failed
    /\ last.fetched = Json("r1")
    /\ Len(CurCache) = 2
    /\ CurCache[2] = Entry(last.key, Json("r1"), now)
    /\ CurCache[1].ts < now
    /\ last.evicted = 0


(***************************************************************************)
(* C26: with ttlSeconds = 0 no lookup is ever a hit: every read of a       *)
(* stored key, even at the time it was put, is a miss that removes the     *)
(* entry and invokes the dispatcher, and hits is 0 after every step.       *)
(***************************************************************************)
C26_ZeroTtlNeverHits ==
    [][ CurTTL = 0
        => /\ CurHits' = 0
           /\ ( /\ CallStep
                /\ IsRead(last'.op)
                /\ CurEnabled
                /\ Contains(CurCache, last'.key) )
              => /\ last'.lookup = "miss"
                 /\ last'.expired
                 /\ last'.dispatched = 1
                 /\ CurMisses' = CurMisses + 1 ]_vars

\* with a TTL of 0, an entry put at time 0 was read at time 0: a miss that
\* removed it, fetched again and stored the result
C26_Witness ==
    /\ CurTTL = 0 /\ now = 0
    /\ IsRead(last.op) /\ last.expired /\ last.lookup = "miss" /\ last.dispatched = 1
    /\ Contains(CurCache, last.key)
    /\ CurHits = 0 /\ CurMisses >= 2


(***************************************************************************)
(* C27: with maxSize = 0 the store never retains an entry: the size is 0   *)
(* after every call, every cacheable call is a miss that invokes the       *)
(* dispatcher, and the put completes without error, so a call fails only   *)
(* when its fetch fails and otherwise returns what it fetched.             *)
(***************************************************************************)
C27_ZeroMaxSizeRetainsNothing ==
    [][ CurMaxSize = 0
        => /\ Len(CurCache') = 0
           /\ ( /\ CallStep
                /\ IsRead(last'.op)
                /\ CurEnabled )
              => /\ last'.lookup = "miss"
                 /\ last'.dispatched = 1
                 /\ last'.failed => last'.cause # ""
                 /\ last'.cause = "" => last'.ret = last'.fetched ]_vars

\* with a maximum size of 0, a second read of the same key has missed,
\* fetched and returned its result, and the store is empty
C27_Witness ==
    /\ CurMaxSize = 0 /\ CurEnabled /\ CurTTL > 0
    /\ IsRead(last.op) /\ last.lookup = "miss" /\ last.dispatched = 1
    /\ ~last.failed /\ last.ret = Json("r1") /\ last.evicted = 1
    /\ CurMisses >= 2 /\ CurHits = 0
    /\ CurCache = <<>>


(***************************************************************************)
(* C28: the hit rate is total-safe: get_cache_stats reports                *)
(* hit_rate_percent = 0 when hits + misses = 0 and otherwise               *)
(* hits * 100 / (hits + misses) rounded to two decimals (the nearest       *)
(* hundredth), so the value lies between 0 and 100.  Rates are in          *)
(* hundredths of a percent.                                                *)
(***************************************************************************)
C28_HitRateTotalSafe ==
    LET stats == IF program = "client" THEN GetCacheStats(ClientStore)
                 ELSE ServerGetCacheStats(ServerStore)
        rate == stats.hit_rate_percent
        total == CurHits + CurMisses
    IN  /\ stats.total_requests = total
        /\ total = 0 => rate = 0
        /\ total > 0 => /\ 2 * (rate * total - CurHits * 10000) <= total
                        /\ 2 * (CurHits * 10000 - rate * total) <= total
        /\ rate >= 0 /\ rate <= 10000

\* get_cache_stats after two hits and one miss reports 66.67 percent
C28_Witness ==
    /\ last.admin = "get_cache_stats"
    /\ CurHits = 2 /\ CurMisses = 1
    /\ HitRatePercent(CurHits, CurHits + CurMisses) = 6667


(***************************************************************************)
(* C29: the eviction loop of put terminates.  For every maximum from 0 up  *)
(* to the configured one and every store content, the loop removes entries *)
(* from the head only, raises nothing and stops with size <= maxSize after *)
(* as many removals as the store was over the maximum; a put on a store    *)
(* with size <= maxSize evicts at most one entry, ends with                *)
(* size <= maxSize and fails only when the fetch failed.                   *)
(***************************************************************************)
C29_EvictionLoopTerminates ==
    [][ /\ \A m \in 0..CurMaxSize :
              LET ev == EvictWhileOver(CurCache', m)
                  over == IF Len(CurCache') > m THEN Len(CurCache') - m ELSE 0
              IN  /\ ~ev.raised
                  /\ Len(ev.cache) <= m
                  /\ ev.cache = SubSeq(CurCache', over + 1, Len(CurCache'))
        /\ ( /\ CallStep
             /\ IsRead(last'.op)
             /\ CurEnabled
             /\ CurMaxSize >= 0
             /\ Len(CurCache) <= CurMaxSize )
           => /\ last'.evicted <= 1
              /\ Len(CurCache') <= CurMaxSize
              /\ last'.failed => last'.cause # "" ]_vars

\* a put on a full store has evicted one entry and left the store full,
\* with the new entry most recently used
C29_Witness ==
    /\ IsRead(last.op) /\ last.evicted = 1 /\ ~last.failed
    /\ CurMaxSize >= 1
    /\ Len(CurCache) = CurMaxSize
    /\ CurCache[Len(CurCache)].key = last.key


(***************************************************************************)
(* C30: no cross-credential reuse in the server cache: a GET that does not *)
(* fail returns the response its own bearer credential fetches upstream,   *)
(* never a response that was fetched and cached for another credential.    *)
(***************************************************************************)
C30_NoCrossCredentialReuse ==
    [][ ( /\ program = "server"
          /\ CallStep
          /\ last'.op = <<"GET">>
          /\ ~last'.failed )
        => last'.ret = OwnResponse(last'.auth).value ]_vars


(***************************************************************************)
(* C32: no stale store after a write under concurrency (server): in every  *)
(* interleaving of make_request calls, once a write request has returned   *)
(* successfully the store holds no GET response that was fetched upstream  *)
(* before that write took effect: every stored response is the resource as *)
(* it is after the writes that have been answered.                         *)
(***************************************************************************)
C32_NoStaleStoreAfterWrite ==
    program = "server" =>
        \A i \in DOMAIN server_cache : server_cache[i].value = Revision(upstream)


(***************************************************************************)
(* C31: no stale store after invalidation under concurrency (client): in   *)
(* every interleaving of call_tool calls on one client, once the           *)
(* invalidation of every write that has taken effect has run, the store    *)
(* holds no entry of an operation the write invalidates whose value was    *)
(* fetched before the write took effect.                                   *)
(***************************************************************************)
C31_NoStaleEntryAfterInvalidation ==
    ( /\ program = "client"
      /\ \A t \in Threads :
            ~(threads[t].pc = "resume"
                /\ threads[t].tool \in CACHE_INVALIDATING_OPERATIONS) )
    => \A i \in DOMAIN cache :
          OpOf(cache[i].key) \in TargetsOf(<<"delete_rule">>)
              => cache[i].value = Revision(upstream)


(***************************************************************************)
(* C33: concurrent cold calls of one key.  A call_tool call of a cacheable *)
(* operation that starts while another call of the same key is in flight   *)
(* and the key is not stored counts a miss and goes on to the dispatcher   *)
(* (there is no request coalescing); when a call resumes and puts its      *)
(* result, with maxSize >= 1, the store holds exactly one entry for the    *)
(* key, with the value of that call and the time of that put.              *)
(***************************************************************************)
C33_ConcurrentColdCalls ==
    [][ \A t \in Threads :
          /\ ( /\ program = "client"
               /\ threads'[t].calls = threads[t].calls + 1
               /\ IsCacheable(threads'[t].tool)
               /\ ~Contains(cache, threads'[t].key)
               /\ \E u \in Threads \ {t} :
                     /\ threads[u].key = threads'[t].key
                     /\ threads[u].pc \in {"dispatch", "resume"} )
             => /\ cache_misses' = cache_misses + 1
                /\ cache_hits' = cache_hits
                /\ threads'[t].pc = "dispatch"
          /\ ( /\ program = "client"
               /\ threads[t].pc = "resume" /\ threads'[t].pc = "done"
               /\ IsCacheable(threads[t].tool)
               /\ max_cache_size >= 1 )
             => /\ Len(SelectSeq(cache', LAMBDA e : e.key = threads[t].key)) = 1
                /\ Lookup(cache', threads[t].key)
                      = Entry(threads[t].key, threads[t].result, now) ]_vars

\* two first calls of list_rules overlapped on a cold store: both missed,
\* both completed, and one entry is stored
C33_Witness ==
    /\ program = "client"
    /\ \A t \in Threads : /\ threads[t].pc = "done" /\ threads[t].calls = 1
                          /\ threads[t].tool = <<"list_rules">>
                          /\ threads[t].err = ""
    /\ cache_ttl > now
    /\ cache_misses = 2 /\ cache_hits = 0
    /\ Len(cache) = 1 /\ cache[1].key = threads["t1"].key
    /\ cache[1].ts = now /\ now > 0


(***************************************************************************)
(* C34: every counted hit suppresses a dispatch: a call whose lookup adds  *)
(* one to hits returns the stored value without invoking the dispatcher,   *)
(* for every storable result value including None.                         *)
(***************************************************************************)
C34_CountedHitSuppressesDispatch ==
    [][ ( /\ CallStep
          /\ IsRead(last'.op)
          /\ CurHits' = CurHits + 1 )
        => /\ last'.dispatched = 0
           /\ last'.ret = Lookup(CurCache, last'.key).value ]_vars


(***************************************************************************)
(* C35: deleting a resource leaves no cached copy of it (client): after a  *)
(* successful delete_device, delete_location or delete_room call the store *)
(* holds no get_device, get_location or get_room entry respectively, just  *)
(* as delete_rule leaves no get_rule entry.                                *)
(***************************************************************************)
DeletedCopy ==
    (<<"delete_device">>   :> <<"get_device">>) @@
    (<<"delete_location">> :> <<"get_location">>) @@
    (<<"delete_room">>     :> <<"get_room">>) @@
    (<<"delete_rule">>     :> <<"get_rule">>)

C35_DeleteLeavesNoCachedCopy ==
    [][ ( /\ program = "client"
          /\ CallStep
          /\ last'.op \in DOMAIN DeletedCopy
          /\ ~last'.failed )
        => \A k \in Keys(cache') : OpOf(k) # DeletedCopy[last'.op] ]_vars


(***************************************************************************)
(* C36: every mutating client operation invalidates: each client method    *)
(* that creates, updates or deletes a resource, including create_scene,    *)
(* update_scene and delete_scene, is a cache-invalidating operation, and   *)
(* after a scene is created, updated or deleted successfully no            *)
(* list_scenes or get_scene result cached before it is left to be          *)
(* returned by the next read.                                              *)
(***************************************************************************)
C36_EveryMutationInvalidates ==
    [][ ( /\ program = "client"
          /\ CallStep
          /\ last'.op \in MutatingTools
          /\ ~last'.failed )
        => /\ last'.op \in CACHE_INVALIDATING_OPERATIONS
           /\ last'.op \in { <<"create_scene">>, <<"update_scene">>, <<"delete_scene">> }
                => \A k \in Keys(cache') :
                      OpOf(k) \notin { <<"list_scenes">>, <<"get_scene">> } ]_vars


(***************************************************************************)
(* C37: the prefix purge respects operation-name boundaries: purging       *)
(* get_device (by execute_command or update_device) removes every          *)
(* get_device entry and leaves every get_device_components,                *)
(* get_device_capabilities and get_device_health entry as it was; purging  *)
(* get_location (by update_location) removes every get_location entry and  *)
(* leaves every get_location_rooms entry.                                  *)
(***************************************************************************)
LongerNames ==
    (<<"get_device">> :> { <<"get_device", "_components">>,
                           <<"get_device", "_capabilities">>,
                           <<"get_device", "_health">> }) @@
    (<<"get_location">> :> { <<"get_location", "_rooms">> })

C37_PrefixRespectsNameBoundary ==
    [][ \A stem \in DOMAIN LongerNames :
          ( /\ program = "client"
            /\ CallStep
            /\ stem \in TargetsOf(last'.op)
            /\ ~last'.failed
            /\ cache_enabled )
          => /\ \A k \in Keys(cache') : OpOf(k) # stem
             /\ SelectSeq(cache', LAMBDA e : OpOf(e.key) \in LongerNames[stem])
                  = SelectSeq(cache, LAMBDA e : OpOf(e.key) \in LongerNames[stem]) ]_vars

\* update_location has just purged the get_location entry and left the
\* get_location_rooms entry
C37_Witness ==
    /\ program = "client"
    /\ last.op = <<"update_location">> /\ ~last.failed /\ last.purged = 1
    /\ Len(cache) = 1
    /\ OpOf(cache[1].key) = <<"get_location", "_rooms">>


C39_EvictionPrefersExpired ==
    [][ CallStep
        => ~( /\ \E i \in DOMAIN last'.victims : (now - last'.victims[i].ts) < CurTTL
              /\ \E j \in DOMAIN CurCache' : (now - CurCache'[j].ts) >= CurTTL ) ]_vars

(***************************************************************************)
(* C39 amended: eviction goes by recency only: a put that exceeds maxSize  *)
(* evicts the least recently used entries, from the head of the store,     *)
(* whether or not they are still within their TTL and whether or not an    *)
(* entry that is already past its TTL remains in the store (an entry's     *)
(* recency is refreshed by hits but its stored timestamp is not).          *)
(***************************************************************************)
C39_EvictionByRecencyOnly ==
    [][ ( /\ CallStep
          /\ IsRead(last'.op)
          /\ last'.evicted >= 1
          /\ CurMaxSize >= 1 )
        => LET given == DelItem(CurCache, last'.key)
           IN  /\ last'.victims = SubSeq(given, 1, last'.evicted)
               /\ CurCache' = Append(SubSeq(given, last'.evicted + 1, Len(given)),
                                     Entry(last'.key, last'.fetched, now)) ]_vars

\* a put has evicted the least recently used entry, which was within its
\* TTL, and an entry past its TTL remains in the store
C39_Witness ==
    /\ last.evicted = 1
    /\ \E i \in DOMAIN last.victims : (now - last.victims[i].ts) < CurTTL
    /\ \E j \in DOMAIN CurCache : (now - CurCache[j].ts) >= CurTTL

====
